---- MODULE Spec2Model ----
(***************************************************************************)
(* Container Management Gateway (src/MCP-DOCKER-main/app.py): a Flask      *)
(* service whose handlers pass requests through to the Docker engine.      *)
(*                                                                         *)
(* The service's own state is the module-level `client` handle.  The       *)
(* engine (its containers, whether it is reachable, whether a call         *)
(* fails) is the environment.  A handler of a container endpoint makes     *)
(* two engine calls (containers.get, then the operation); other parties    *)
(* may change the engine between the two, so such a handler is two steps.  *)
(***************************************************************************)
EXTENDS Naturals, Sequences, FiniteSets

VARIABLES
    client,      \* app.py:16  the module-level handle: "None" or "DockerClient"
    engineUp,    \* environment: the engine daemon answers on its socket
    containers,  \* environment: engine's container table, index -> status
    pc,          \* per handling context: "idle", "got" (after containers.get), "done"
    req,         \* per handling context: the request being handled
    handle,      \* per handling context: the Container object returned by get
    calls,       \* per handling context: the engine calls made for this request
    resp,        \* per handling context: the response returned
    \* LogViewer (src/log_viewer.py)
    viewer_running,        \* self.running
    viewer_queue,          \* self.log_queue
    viewer_shown,          \* the console: what display_logs has printed
    viewer_now,            \* the clock, in seconds since monitor_services began
    services,              \* environment: the state of backend and frontend
    backend_online,        \* monitor_services: local of the same name
    frontend_online,       \* monitor_services: local of the same name
    last_backend_status,   \* monitor_services: local of the same name
    last_frontend_status,  \* monitor_services: local of the same name
    \* MCPDockerSetup (src/setup_mcp_docker.py)
    setup_pc,       \* run_setup: the step it is about to run, or "returned"
    setup_result,   \* run_setup: what it returned, or the exception it let through
    setup_steps,    \* the console: the steps that announced themselves in this run
    setup_runs,     \* how many times the script has been run
    host,           \* environment: what is installed and what works on the machine
    compose_file,   \* docker-compose.yml of the project: its lines, or Missing
    script_file,    \* mcp_docker_client.py exists
    guide_file,     \* MCP_DOCKER_GUIDE.md exists
    \* LogMonitor (src/log_monitor.py)
    mon_running,    \* self.running
    mon_processes,  \* self.processes: the services whose Popen worked, in order
    mon_alive,      \* environment, per service: the process runs (poll() is None)
    mon_written,    \* environment, per service: lines the process has written
    mon_read,       \* per service: lines readline has taken from the pipe
    mon_pc,         \* per service: where the thread of monitor_process is
    mon_queue,      \* self.log_queue
    mon_shown,      \* the console: the entries display_logs has printed
    mon_stop,       \* the main thread: where stop_all_processes is
    mon_sent,       \* per service: the signals sent to the process
    mon_errors      \* the console: services with "Erro ao parar"

gatewayVars == <<client, engineUp, containers, pc, req, handle, calls, resp>>

viewerVars ==
    <<viewer_running, viewer_queue, viewer_shown, viewer_now, services,
      backend_online, frontend_online, last_backend_status, last_frontend_status>>

setupVars ==
    <<setup_pc, setup_result, setup_steps, setup_runs, host, compose_file,
      script_file, guide_file>>

monitorVars ==
    <<mon_running, mon_processes, mon_alive, mon_written, mon_read, mon_pc,
      mon_queue, mon_shown, mon_stop, mon_sent, mon_errors>>

\* What the gateway's steps leave alone: the other programs of the repository.
otherVars == <<viewerVars, setupVars, monitorVars>>

\* What the steps of LogViewer leave alone.
notViewerVars == <<gatewayVars, setupVars, monitorVars>>

\* What the steps of MCPDockerSetup leave alone.
notSetupVars == <<gatewayVars, viewerVars, monitorVars>>

\* What the steps of LogMonitor leave alone.
notMonitorVars == <<gatewayVars, viewerVars, setupVars>>

vars == <<gatewayVars, otherVars>>

-----------------------------------------------------------------------------
(* Bounds of the model *)

NContainers == 2      \* containers the engine may hold
FullIdLen == 14       \* length of an engine identifier in the model (64 in Docker)
LongLog == 103        \* lines of output of a container that has written a lot
MaxPolls == 3         \* turns of LogViewer.monitor_services that are followed
MaxRuns == 2          \* runs of setup_mcp_docker.py on the same project
MaxLines == 3         \* lines a process monitored by LogMonitor writes

-----------------------------------------------------------------------------
(* Text.  A string the code slices or lower-cases is a sequence of          *)
(* character codes: 0..15 hex digits, 20+k lower-case letter k, 60+k the   *)
(* upper-case letter k, 100+d other characters.                            *)

IdPrefixLen == 12

Take(s, n) == [i \in 1..(IF Len(s) < n THEN Len(s) ELSE n) |-> s[i]]

IsPrefix(p, s) == Len(p) <= Len(s) /\ \A i \in 1..Len(p) : p[i] = s[i]

LowerChar(ch) == IF ch \in 61..86 THEN ch - 40 ELSE ch

Lower(s) == [i \in 1..Len(s) |-> LowerChar(s[i])]

StrTrue == <<40, 38, 41, 25>>        \* "true"
StrTrueUpper == <<80, 78, 81, 65>>   \* "TRUE"
StrTrueMixed == <<80, 38, 41, 25>>   \* "True"
StrFalse == <<26, 21, 32, 39, 25>>   \* "false"
StrOne == <<1>>                      \* "1"

-----------------------------------------------------------------------------
(* The engine's containers *)

Universe == 1..NContainers

Statuses == {"running", "exited"}

Absent == "absent"

\* 64 hex digits in Docker; here FullIdLen digits.  Containers 1 and 2 (3 and
\* 4, ...) differ only after the first IdPrefixLen digits: their identifiers
\* share the prefix the summaries show.
FullId(c) ==
    [i \in 1..FullIdLen |->
        IF i = 1 THEN (c + 1) \div 2
        ELSE IF i = IdPrefixLen + 1 THEN c
        ELSE IF i = FullIdLen THEN 15 ELSE 0]

NameOf(c) == <<33, 20 + c>>

\* image.tags of the container's image: container 1's image is untagged.
ImageTags(c) == IF c = 1 THEN <<>> ELSE <<"nginx:latest", "nginx:1">>

UnknownRef == <<7, 7, 7>>

Present(cs) == {c \in Universe : cs[c] # Absent}

-----------------------------------------------------------------------------
(* Failures the engine client raises *)

NotFound == "404 Client Error: Not Found"

ConnRefused == "Error while fetching server API version: Connection refused"

FaultMsgs == {"403 Client Error: permission denied", "Read timed out"}

ConflictRunning == "409 Client Error: cannot remove a running container"

ConflictNotRunning == "409 Client Error: container is not running"

AmbiguousPrefix == "500 Server Error: multiple IDs found with provided prefix"

Ok == "ok"

\* What one engine round trip may come to when the engine would answer `answer`:
\* the engine is unreachable, or it fails the call, or it answers.
RoundTrip(up, answer) == IF up THEN {answer} \cup FaultMsgs ELSE {ConnRefused}

\* The failures that tell the caller nothing about what the engine did: the
\* answer did not arrive in time.
LostAnswers == {"Read timed out"}

\* What a call leaves of the engine's containers `cs`, when the engine would
\* answer it `answer` and the caller gets `out`: the call's effect when the
\* answer arrives, nothing when the engine refuses or is not reached, and
\* either when the answer is lost.
Effects(cs, answer, out) ==
    IF out = answer.result THEN {answer.cs}
    ELSE IF out \in LostAnswers THEN {cs, answer.cs}
    ELSE {cs}

\* containers.get(ref): by whole identifier, else by exact name, else by
\* unique identifier prefix.
Resolve(cs, ref) ==
    LET whole == {c \in Present(cs) : FullId(c) = ref}
        byName == {c \in Present(cs) : NameOf(c) = ref}
        byId == {c \in Present(cs) : IsPrefix(ref, FullId(c))}
    IN  IF whole # {} THEN [result |-> Ok, cid |-> CHOOSE c \in whole : TRUE]
        ELSE IF byName # {} THEN [result |-> Ok, cid |-> CHOOSE c \in byName : TRUE]
        ELSE IF byId = {} THEN [result |-> NotFound, cid |-> 0]
        ELSE IF Cardinality(byId) > 1 THEN [result |-> AmbiguousPrefix, cid |-> 0]
        ELSE [result |-> Ok, cid |-> CHOOSE c \in byId : TRUE]

Known(cs, ref) == Resolve(cs, ref).result # NotFound

\* containers.list(all=...): every container, or the running ones.
EngineList(cs, all) ==
    LET keep == {c \in Present(cs) : all \/ cs[c] = "running"}
        RECURSIVE Asc(_)
        Asc(n) == IF n = 0 THEN <<>>
                  ELSE IF n \in keep THEN Append(Asc(n - 1), n) ELSE Asc(n - 1)
    IN  Asc(NContainers)

\* container.start(): starting a running container is a no-op (304).
EngineStart(cs, c) ==
    IF cs[c] = Absent THEN [result |-> NotFound, cs |-> cs]
    ELSE [result |-> Ok, cs |-> [cs EXCEPT ![c] = "running"]]

\* container.stop(): stopping a stopped container is a no-op (304).
EngineStop(cs, c) ==
    IF cs[c] = Absent THEN [result |-> NotFound, cs |-> cs]
    ELSE [result |-> Ok, cs |-> [cs EXCEPT ![c] = "exited"]]

\* container.remove(force=...): a running container is removed only by force.
EngineRemove(cs, c, force) ==
    IF cs[c] = Absent THEN [result |-> NotFound, cs |-> cs]
    ELSE IF cs[c] = "running" /\ ~force THEN [result |-> ConflictRunning, cs |-> cs]
    ELSE [result |-> Ok, cs |-> [cs EXCEPT ![c] = Absent]]

\* The lines a container has written so far: few for container 1, more than
\* any tail asks for the others.
LogLen(c) == IF c = 1 THEN 2 ELSE LongLog

NoBytes == [kind |-> "bytes", lines |-> <<>>]

\* The last `tail` lines of the container's output, each stamped when asked.
TailRead(c, tail, timestamps) ==
    LET n == IF LogLen(c) < tail THEN LogLen(c) ELSE tail
    IN  [kind |-> "bytes",
         lines |-> [i \in 1..n |-> [line |-> LogLen(c) - n + i, stamp |-> timestamps]]]

\* container.logs(...): a read.
EngineLogs(cs, c, tail, timestamps) ==
    IF cs[c] = Absent THEN [result |-> NotFound, cs |-> cs, out |-> NoBytes]
    ELSE [result |-> Ok, cs |-> cs, out |-> TailRead(c, tail, timestamps)]

\* container.exec_run(cmd): needs a running container.
EngineExec(cs, c) ==
    IF cs[c] = Absent THEN [result |-> NotFound, cs |-> cs]
    ELSE IF cs[c] # "running" THEN [result |-> ConflictNotRunning, cs |-> cs]
    ELSE [result |-> Ok, cs |-> cs]

-----------------------------------------------------------------------------
(* Requests *)

NoForce == [present |-> FALSE, value |-> <<>>]

ForceArg(v) == [present |-> TRUE, value |-> v]

ForceArgs ==
    {NoForce, ForceArg(StrTrue), ForceArg(StrTrueUpper), ForceArg(StrTrueMixed),
     ForceArg(StrFalse), ForceArg(StrOne)}

\* The bodies a POST .../exec may carry.
\*   absent_json   Content-Type application/json, no bytes
\*   absent_plain  no body and no JSON content type
\*   empty_object  {}
\*   no_command    {"cmd": "ls"}
\*   array         ["command"]
\*   command_str   {"command": "ls"}
\*   command_list  {"command": ["ls", "-l"]}
Bodies ==
    {"absent_json", "absent_plain", "empty_object", "no_command", "array",
     "command_str", "command_list"}

NoBody == "absent_plain"

Request(ep, cid, force, body) == [ep |-> ep, cid |-> cid, force |-> force, body |-> body]

NoRef == <<>>

NoReq == Request("none", NoRef, NoForce, NoBody)

ContainerEndpoints == {"start", "stop", "logs", "remove", "exec"}

DataPlane == {"containers", "containers_all"} \cup ContainerEndpoints

-----------------------------------------------------------------------------
(* request.get_json() and the Python operations on its value *)

BadRequestMsg == "400 Bad Request: The browser (or proxy) sent a request that this server could not understand."

UnsupportedMsg == "415 Unsupported Media Type: Did not attempt to load JSON data because the request Content-Type was not 'application/json'."

TypeErrorMsg == "list indices must be integers or slices, not str"

Cmd(list, argv) == [list |-> list, argv |-> argv]

NoCmd == Cmd(FALSE, <<>>)

Json(type, keys, items, command) ==
    [type |-> type, keys |-> keys, items |-> items, command |-> command]

JNull == Json("null", {}, <<>>, NoCmd)

Returned(data) == [raised |-> "", value |-> data]

Raised(msg) == [raised |-> msg, value |-> JNull]

\* The outcomes of request.get_json().  An unparseable body raises BadRequest
\* in every Flask; without a JSON content type Flask < 2.1 returns None and
\* Flask >= 2.1 raises UnsupportedMediaType (the repository pins no version).
GetJson(body) ==
    CASE body = "absent_json" -> {Raised(BadRequestMsg)}
      [] body = "absent_plain" -> {Returned(JNull), Raised(UnsupportedMsg)}
      [] body = "empty_object" -> {Returned(Json("object", {}, <<>>, NoCmd))}
      [] body = "no_command" -> {Returned(Json("object", {"cmd"}, <<>>, NoCmd))}
      [] body = "array" -> {Returned(Json("array", {}, <<"command">>, NoCmd))}
      [] body = "command_str" ->
            {Returned(Json("object", {"command"}, <<>>, Cmd(FALSE, <<"ls">>)))}
      [] body = "command_list" ->
            {Returned(Json("object", {"command"}, <<>>, Cmd(TRUE, <<"ls", "-l">>)))}

\* Python: not data
Falsy(data) ==
    \/ data.type = "null"
    \/ data.type = "object" /\ data.keys = {}
    \/ data.type = "array" /\ data.items = <<>>

\* the test `'command' not in data` left out
Contains_unchecked(data, key) == TRUE

\* Python: key in data
Contains(data, key) ==
    \/ data.type = "object" /\ key \in data.keys
    \/ data.type = "array" /\ \E i \in 1..Len(data.items) : data.items[i] = key

\* Python: data['command']
Subscript(data) ==
    IF data.type = "object" THEN [raised |-> "", value |-> data.command]
    ELSE [raised |-> TypeErrorMsg, value |-> NoCmd]

-----------------------------------------------------------------------------
(* Responses *)

MsgNotConnected == "Docker client não conectado"

MsgNotFound == "Container não encontrado"

MsgCommandRequired == "Campo \"command\" é obrigatório"

ErrorResp(status, msg) == [status |-> status, kind |-> "error", error |-> msg, body |-> <<>>]

OkResp(kind, body) == [status |-> 200, kind |-> kind, error |-> "", body |-> body]

NoResp == [status |-> 0, kind |-> "none", error |-> "", body |-> <<>>]

NoHandle == [cid |-> 0, status |-> Absent]

Call(op, result) == [op |-> op, result |-> result]

\* The exception an engine call's failure raises.
Raise(result) == [cls |-> IF result = NotFound THEN "NotFound" ELSE "Exception", msg |-> result]

\* the list handlers without their except clause: the failure leaves the
\* handler and Flask answers with its own 500 page
ListExcept_unhandled(exc) ==
    [status |-> 500, kind |-> "unhandled", error |-> "", body |-> "Internal Server Error"]

\* except Exception as e  (the list handlers)
ListExcept(exc) == ErrorResp(500, exc.msg)

\* the container handlers answering a fixed text instead of str(e)
ContainerExcept_fixed_text(exc) ==
    IF exc.cls = "NotFound" THEN ErrorResp(404, MsgNotFound)
    ELSE ErrorResp(500, "Internal Server Error")

\* the container handlers without their `except docker.errors.NotFound` clause
ContainerExcept_no_notfound(exc) == ErrorResp(500, exc.msg)

\* except docker.errors.NotFound / except Exception as e  (the container handlers)
ContainerExcept(exc) ==
    IF exc.cls = "NotFound" THEN ErrorResp(404, MsgNotFound)
    ELSE ErrorResp(500, exc.msg)

Unavailable == ErrorResp(503, MsgNotConnected)

\* remove_container forcing every removal
ParseForce_always(arg) == TRUE

\* ParseForce without .lower()
ParseForce_case_sensitive(arg) == (IF arg.present THEN arg.value ELSE StrFalse) = StrTrue

\* force = request.args.get('force', 'false').lower() == 'true'
ParseForce(arg) == Lower(IF arg.present THEN arg.value ELSE StrFalse) = StrTrue

\* the image field taking the last tag
ImageOf_last_tag(c) ==
    IF ImageTags(c) # <<>> THEN ImageTags(c)[Len(ImageTags(c))] ELSE "unknown"

ImageOf(c) == IF ImageTags(c) # <<>> THEN ImageTags(c)[1] ELSE "unknown"

\* list_running_containers giving the whole identifier
RunningSummary_full_id(cs, c) ==
    [id |-> FullId(c), name |-> NameOf(c), status |-> cs[c], image |-> ImageOf(c)]

\* the summary list_running_containers appends
RunningSummary(cs, c) ==
    [id |-> Take(FullId(c), IdPrefixLen), name |-> NameOf(c), status |-> cs[c],
     image |-> ImageOf(c)]

\* list_all_containers slicing the identifier from the wrong end
AllSummary_tail_id(cs, c) ==
    [id |-> [i \in 1..(FullIdLen - IdPrefixLen) |-> FullId(c)[IdPrefixLen + i]],
     name |-> NameOf(c), status |-> cs[c], image |-> ImageOf(c)]

\* the summary list_all_containers appends
AllSummary(cs, c) ==
    [id |-> Take(FullId(c), IdPrefixLen), name |-> NameOf(c), status |-> cs[c],
     image |-> ImageOf(c)]

\* The identifiers requests carry in the path: the id fields of the summaries
\* the list endpoints give, a whole identifier, a name, and one no container has.
Refs ==
    {RunningSummary([d \in Universe |-> "running"], c).id : c \in Universe}
        \cup {AllSummary([d \in Universe |-> "running"], c).id : c \in Universe}
        \cup {FullId(1), NameOf(1), UnknownRef}

\* result, as list_running_containers builds it from containers.list()
RunningListing(cs) ==
    LET l == EngineList(cs, FALSE)
    IN  [i \in 1..Len(l) |-> RunningSummary(cs, l[i])]

\* result, as list_all_containers builds it from containers.list(all=True)
AllListing(cs) ==
    LET l == EngineList(cs, TRUE)
    IN  [i \in 1..Len(l) |-> AllSummary(cs, l[i])]

\* health_check reporting a connection whatever the handle is
HealthBody_always_connected == [status |-> "healthy", docker_connected |-> TRUE]

\* jsonify({...}) of health_check; the timestamp is left out.
HealthBody == [status |-> "healthy", docker_connected |-> client # "None"]

-----------------------------------------------------------------------------
(* Steps shared by the handlers *)

Contexts == {"h1"}

\* return jsonify(...)[, status]: the handler of request r ends with response rsp
\* after the engine calls `log`.
Return(w, r, rsp, log) ==
    /\ pc' = [pc EXCEPT ![w] = "done"]
    /\ req' = [req EXCEPT ![w] = r]
    /\ resp' = [resp EXCEPT ![w] = rsp]
    /\ calls' = [calls EXCEPT ![w] = log]
    /\ UNCHANGED otherVars

\* container = client.containers.get(container_id), inside the handler's try.
Get(w, r) ==
    \E out \in RoundTrip(engineUp, Resolve(containers, r.cid).result) :
        IF out = Ok
        THEN /\ pc' = [pc EXCEPT ![w] = "got"]
             /\ req' = [req EXCEPT ![w] = r]
             /\ handle' = [handle EXCEPT ![w] =
                    [cid |-> Resolve(containers, r.cid).cid,
                     status |-> containers[Resolve(containers, r.cid).cid]]]
             /\ calls' = [calls EXCEPT ![w] = <<Call("get", Ok)>>]
             /\ UNCHANGED <<resp, otherVars>>
        ELSE /\ Return(w, r, ContainerExcept(Raise(out)), <<Call("get", out)>>)
             /\ UNCHANGED handle

\* Operate with a handler that drops the module's handle when the call fails.
Operate_dropping_handle(w, op, answer, success) ==
    \E out \in RoundTrip(engineUp, answer.result) :
        /\ containers' \in Effects(containers, answer, out)
        /\ client' = IF out = Ok THEN client ELSE "None"
        /\ Return(w, req[w],
                  IF out = Ok THEN success ELSE ContainerExcept(Raise(out)),
                  Append(calls[w], Call(op, out)))
        /\ UNCHANGED <<engineUp, handle>>

\* Operate with a handler that passes over the failure of the call
Operate_reporting_success(w, op, answer, success) ==
    \E out \in RoundTrip(engineUp, answer.result) :
        /\ containers' \in Effects(containers, answer, out)
        /\ Return(w, req[w], success, Append(calls[w], Call(op, out)))
        /\ UNCHANGED <<client, engineUp, handle>>

\* The second engine call of a container handler: `op` on the held container,
\* answered by `answer`; `success` is the handler's 200 response.
Operate(w, op, answer, success) ==
    \E out \in RoundTrip(engineUp, answer.result) :
        /\ containers' \in Effects(containers, answer, out)
        /\ Return(w, req[w],
                  IF out = Ok THEN success ELSE ContainerExcept(Raise(out)),
                  Append(calls[w], Call(op, out)))
        /\ UNCHANGED <<client, engineUp, handle>>

-----------------------------------------------------------------------------
(* The handlers *)

\* GET /health
health_check(w) ==
    /\ pc[w] = "idle"
    /\ Return(w, Request("health", NoRef, NoForce, NoBody), OkResp("health", HealthBody), <<>>)
    /\ UNCHANGED <<client, engineUp, containers, handle>>

\* list_running_containers answering from a result kept by an earlier request
\* (here: one another context still holds) instead of asking the engine
list_running_containers_cached(w) ==
    /\ pc[w] = "idle"
    /\ LET r == Request("containers", NoRef, NoForce, NoBody)
           kept == {v \in DOMAIN pc : /\ pc[v] = "done"
                                      /\ req[v].ep = "containers"
                                      /\ resp[v].status = 200}
       IN  IF client = "None" THEN Return(w, r, Unavailable, <<>>)
           ELSE IF kept # {} THEN Return(w, r, resp[CHOOSE v \in kept : TRUE], <<>>)
           ELSE \E out \in RoundTrip(engineUp, Ok) :
                    IF out = Ok
                    THEN Return(w, r, OkResp("list", RunningListing(containers)),
                                <<Call("list", Ok)>>)
                    ELSE Return(w, r, ListExcept(Raise(out)), <<Call("list", out)>>)
    /\ UNCHANGED <<client, engineUp, containers, handle>>

\* GET /containers
list_running_containers(w) ==
    /\ pc[w] = "idle"
    /\ LET r == Request("containers", NoRef, NoForce, NoBody)
       IN  IF client = "None" THEN Return(w, r, Unavailable, <<>>)
           ELSE \E out \in RoundTrip(engineUp, Ok) :
                    IF out = Ok
                    THEN Return(w, r, OkResp("list", RunningListing(containers)),
                                <<Call("list", Ok)>>)
                    ELSE Return(w, r, ListExcept(Raise(out)), <<Call("list", out)>>)
    /\ UNCHANGED <<client, engineUp, containers, handle>>

\* list_all_containers calling containers.list() without all=True
list_all_containers_without_all(w) ==
    /\ pc[w] = "idle"
    /\ LET r == Request("containers_all", NoRef, NoForce, NoBody)
       IN  IF client = "None" THEN Return(w, r, Unavailable, <<>>)
           ELSE \E out \in RoundTrip(engineUp, Ok) :
                    IF out = Ok
                    THEN Return(w, r, OkResp("list", RunningListing(containers)),
                                <<Call("list", Ok)>>)
                    ELSE Return(w, r, ListExcept(Raise(out)), <<Call("list", out)>>)
    /\ UNCHANGED <<client, engineUp, containers, handle>>

\* GET /containers/all
list_all_containers(w) ==
    /\ pc[w] = "idle"
    /\ LET r == Request("containers_all", NoRef, NoForce, NoBody)
       IN  IF client = "None" THEN Return(w, r, Unavailable, <<>>)
           ELSE \E out \in RoundTrip(engineUp, Ok) :
                    IF out = Ok
                    THEN Return(w, r, OkResp("list", AllListing(containers)),
                                <<Call("list", Ok)>>)
                    ELSE Return(w, r, ListExcept(Raise(out)), <<Call("list", out)>>)
    /\ UNCHANGED <<client, engineUp, containers, handle>>

AttributeErrorMsg == "'NoneType' object has no attribute 'containers'"

\* start_container without its `if client is None` guard
start_container_unguarded(w, r) ==
    /\ pc[w] = "idle"
    /\ r.ep = "start"
    /\ IF client = "None"
       THEN /\ Return(w, r, ContainerExcept([cls |-> "Exception", msg |-> AttributeErrorMsg]), <<>>)
            /\ UNCHANGED handle
       ELSE Get(w, r)
    /\ UNCHANGED <<client, engineUp, containers>>

\* POST /containers/<container_id>/start, up to containers.get
start_container(w, r) ==
    /\ pc[w] = "idle"
    /\ r.ep = "start"
    /\ IF client = "None"
       THEN Return(w, r, Unavailable, <<>>) /\ UNCHANGED handle
       ELSE Get(w, r)
    /\ UNCHANGED <<client, engineUp, containers>>

\* start_container with a lifecycle check of its own: a container seen running
\* is refused without asking the engine
start_container_op_checked(w) ==
    /\ pc[w] = "got"
    /\ req[w].ep = "start"
    /\ IF handle[w].status = "running"
       THEN /\ Return(w, req[w], ErrorResp(409, "Container already running"), calls[w])
            /\ UNCHANGED <<client, engineUp, containers, handle>>
       ELSE Operate(w, "start", EngineStart(containers, handle[w].cid),
                    OkResp("started",
                           [message |-> <<"Container ", req[w].cid, " iniciado com sucesso">>,
                            status |-> "started"]))

\* container.start() and the response
start_container_op(w) ==
    /\ pc[w] = "got"
    /\ req[w].ep = "start"
    /\ Operate(w, "start", EngineStart(containers, handle[w].cid),
               OkResp("started",
                      [message |-> <<"Container ", req[w].cid, " iniciado com sucesso">>,
                       status |-> "started"]))

\* POST /containers/<container_id>/stop, up to containers.get
stop_container(w, r) ==
    /\ pc[w] = "idle"
    /\ r.ep = "stop"
    /\ IF client = "None"
       THEN Return(w, r, Unavailable, <<>>) /\ UNCHANGED handle
       ELSE Get(w, r)
    /\ UNCHANGED <<client, engineUp, containers>>

\* stop_container_op answering from the status the container object got at
\* the lookup, without asking the engine when that status is exited
stop_container_op_from_lookup(w) ==
    /\ pc[w] = "got"
    /\ req[w].ep = "stop"
    /\ IF handle[w].status = "exited"
       THEN /\ Return(w, req[w],
                      OkResp("stopped",
                             [message |-> <<"Container ", req[w].cid, " parado com sucesso">>,
                              status |-> "stopped"]),
                      calls[w])
            /\ UNCHANGED <<client, engineUp, containers, handle>>
       ELSE Operate(w, "stop", EngineStop(containers, handle[w].cid),
                    OkResp("stopped",
                           [message |-> <<"Container ", req[w].cid, " parado com sucesso">>,
                            status |-> "stopped"]))

\* container.stop() and the response
stop_container_op(w) ==
    /\ pc[w] = "got"
    /\ req[w].ep = "stop"
    /\ Operate(w, "stop", EngineStop(containers, handle[w].cid),
               OkResp("stopped",
                      [message |-> <<"Container ", req[w].cid, " parado com sucesso">>,
                       status |-> "stopped"]))

LogTail == 100

\* GET /containers/<container_id>/logs, up to containers.get
get_container_logs(w, r) ==
    /\ pc[w] = "idle"
    /\ r.ep = "logs"
    /\ IF client = "None"
       THEN Return(w, r, Unavailable, <<>>) /\ UNCHANGED handle
       ELSE Get(w, r)
    /\ UNCHANGED <<client, engineUp, containers>>

\* .decode('utf-8') of the bytes container.logs returns
Decode(b) == [kind |-> "str", lines |-> b.lines]

\* get_container_logs_op calling container.logs(timestamps=True) without tail
get_container_logs_op_whole_log(w) ==
    /\ pc[w] = "got"
    /\ req[w].ep = "logs"
    /\ LET logs == EngineLogs(containers, handle[w].cid, LogLen(handle[w].cid), TRUE)
       IN  Operate(w, "logs", logs,
                   OkResp("logs",
                          [container_id |-> req[w].cid, logs |-> Decode(logs.out)]))

\* container.logs(tail=100, timestamps=True) and the response
get_container_logs_op(w) ==
    /\ pc[w] = "got"
    /\ req[w].ep = "logs"
    /\ LET logs == EngineLogs(containers, handle[w].cid, LogTail, TRUE)
       IN  Operate(w, "logs", logs,
                   OkResp("logs",
                          [container_id |-> req[w].cid, logs |-> Decode(logs.out)]))

\* DELETE /containers/<container_id>/remove, up to containers.get
remove_container(w, r) ==
    /\ pc[w] = "idle"
    /\ r.ep = "remove"
    /\ IF client = "None"
       THEN Return(w, r, Unavailable, <<>>) /\ UNCHANGED handle
       ELSE Get(w, r)
    /\ UNCHANGED <<client, engineUp, containers>>

\* container.remove(force=force) and the response
remove_container_op(w) ==
    /\ pc[w] = "got"
    /\ req[w].ep = "remove"
    /\ Operate(w, "remove",
               EngineRemove(containers, handle[w].cid, ParseForce(req[w].force)),
               OkResp("removed",
                      [message |-> <<"Container ", req[w].cid, " removido com sucesso">>,
                       status |-> "removed"]))

\* POST /containers/<container_id>/exec, up to containers.get
exec_command(w, r) ==
    /\ pc[w] = "idle"
    /\ r.ep = "exec"
    /\ IF client = "None"
       THEN Return(w, r, Unavailable, <<>>) /\ UNCHANGED handle
       ELSE \E j \in GetJson(r.body) :
                IF j.raised # ""
                THEN /\ Return(w, r, ContainerExcept([cls |-> "Exception", msg |-> j.raised]), <<>>)
                     /\ UNCHANGED handle
                ELSE IF Falsy(j.value) \/ ~Contains(j.value, "command")
                THEN /\ Return(w, r, ErrorResp(400, MsgCommandRequired), <<>>)
                     /\ UNCHANGED handle
                ELSE Get(w, r)
    /\ UNCHANGED <<client, engineUp, containers>>

ExitCodes == {0, 1}

\* The value get_json() returned to a handler that went on to containers.get.
DataOf(body) == (CHOOSE j \in GetJson(body) : j.raised = "").value

\* The exit code of a command that was killed with its container.
KilledCode == 137

\* An engine call that was made and has not returned.
Pending == "pending"

\* container.exec_run(cmd) of a command that does not terminate: the call
\* does not return and the handler stays in it.
Block(w, op, answer) ==
    /\ engineUp
    /\ answer.result = Ok
    /\ pc' = [pc EXCEPT ![w] = "blocked"]
    /\ calls' = [calls EXCEPT ![w] = Append(calls[w], Call(op, Pending))]
    /\ UNCHANGED <<client, engineUp, containers, req, handle, resp, otherVars>>

\* exec_command_op with a handler that gives up on a call that does not
\* return and answers with a timeout
exec_command_op_timeout(w) ==
    /\ pc[w] = "got"
    /\ req[w].ep = "exec"
    /\ LET arg == Subscript(DataOf(req[w].body))
       IN  IF arg.raised # ""
           THEN /\ Return(w, req[w], ContainerExcept([cls |-> "Exception", msg |-> arg.raised]), calls[w])
                /\ UNCHANGED <<client, engineUp, containers, handle>>
           ELSE \/ \E code \in ExitCodes :
                        Operate(w, "exec", EngineExec(containers, handle[w].cid),
                                OkResp("exec",
                                       [container_id |-> req[w].cid,
                                        command |-> arg.value,
                                        exit_code |-> code,
                                        output |-> <<"output of", arg.value>>]))
                \/ /\ engineUp
                   /\ EngineExec(containers, handle[w].cid).result = Ok
                   /\ Return(w, req[w], ContainerExcept(Raise("Read timed out")),
                             Append(calls[w], Call("exec", Pending)))
                   /\ UNCHANGED <<client, engineUp, containers, handle>>

\* container.exec_run(data['command']) and the response, when the call returns
exec_command_op(w) ==
    /\ pc[w] = "got"
    /\ req[w].ep = "exec"
    /\ LET arg == Subscript(DataOf(req[w].body))
       IN  IF arg.raised # ""
           THEN /\ Return(w, req[w], ContainerExcept([cls |-> "Exception", msg |-> arg.raised]), calls[w])
                /\ UNCHANGED <<client, engineUp, containers, handle>>
           ELSE \/ \E code \in ExitCodes :
                        Operate(w, "exec", EngineExec(containers, handle[w].cid),
                                OkResp("exec",
                                       [container_id |-> req[w].cid,
                                        command |-> arg.value,
                                        exit_code |-> code,
                                        output |-> <<"output of", arg.value>>]))
                \/ Block(w, "exec", EngineExec(containers, handle[w].cid))

\* The container of a command that did not terminate no longer runs: the
\* command died with it, exec_run returns and the handler answers.
exec_command_killed(w) ==
    /\ pc[w] = "blocked"
    /\ req[w].ep = "exec"
    /\ containers[handle[w].cid] # "running"
    /\ Return(w, req[w],
              OkResp("exec",
                     [container_id |-> req[w].cid,
                      command |-> Subscript(DataOf(req[w].body)).value,
                      exit_code |-> KilledCode,
                      output |-> <<"output of", Subscript(DataOf(req[w].body)).value>>]),
              [calls[w] EXCEPT ![Len(calls[w])] = Call("exec", Ok)])
    /\ UNCHANGED <<client, engineUp, containers, handle>>

\* The response has been sent; the context takes the next request.
Finish(w) ==
    /\ pc[w] = "done"
    /\ pc' = [pc EXCEPT ![w] = "idle"]
    /\ req' = [req EXCEPT ![w] = NoReq]
    /\ resp' = [resp EXCEPT ![w] = NoResp]
    /\ handle' = [handle EXCEPT ![w] = NoHandle]
    /\ calls' = [calls EXCEPT ![w] = <<>>]
    /\ UNCHANGED <<client, engineUp, containers, otherVars>>

-----------------------------------------------------------------------------
(* The environment *)

\* Someone else creates, starts, stops or removes a container.
EngineChange(c, s) ==
    /\ containers[c] # s
    /\ containers' = [containers EXCEPT ![c] = s]
    /\ UNCHANGED <<client, engineUp, pc, req, handle, calls, resp, otherVars>>

\* The engine daemon stops or comes back.
EngineUpDown ==
    /\ engineUp' = ~engineUp
    /\ UNCHANGED <<client, containers, pc, req, handle, calls, resp, otherVars>>

-----------------------------------------------------------------------------
(* MCPDockerSetup (src/setup_mcp_docker.py): run_setup checks the machine,   *)
(* builds and starts the gateway, tests it and writes three files.  A file   *)
(* is the sequence of its lines.                                             *)

Missing == <<"(no file)">>

\* mcp_service, line by line; it begins and ends with a line break
McpService ==
    <<"  mcp-bridge:",
      "    build: ./MCP-DOCKER-main",
      "    container_name: mcp-bridge",
      "    ports:",
      "      - \"5000:5000\"",
      "    volumes:",
      "      - /var/run/docker.sock:/var/run/docker.sock",
      "    restart: unless-stopped",
      "    environment:",
      "      - FLASK_ENV=production",
      "    networks:",
      "      - default">>

\* Python: "networks:" in line; the text before it on the line
NetworksAt(line) ==
    IF line = "networks:" THEN [found |-> TRUE, before |-> ""]
    ELSE IF line = "    networks:" THEN [found |-> TRUE, before |-> "    "]
    ELSE [found |-> FALSE, before |-> line]

\* The lines with "mcp-bridge" in them
MentionsMcp ==
    {"  mcp-bridge:", "    container_name: mcp-bridge", "# mcp-bridge: see MCP-DOCKER-main"}

\* Python: sub in content
Mentioned(content, lines) == \E i \in 1..Len(content) : content[i] \in lines

\* The lines with "networks:" in them
HasNetworks == {"networks:", "    networks:"}

RECURSIVE Replace(_)
\* content.replace("networks:", mcp_service + "\nnetworks:")
Replace(content) ==
    IF content = <<>> THEN <<>>
    ELSE IF Head(content) \in HasNetworks
    THEN <<NetworksAt(Head(content)).before>> \o McpService \o <<"", "networks:">>
            \o Replace(Tail(content))
    ELSE <<Head(content)>> \o Replace(Tail(content))

\* The docker-compose.yml files the project may have.
ComposeFiles ==
    { Missing,
      <<"services:", "  app:", "    image: app">>,
      <<"services:", "  app:", "    image: app", "networks:", "  default:">>,
      <<"services:", "  app:", "    image: app", "    networks:", "      - default",
        "networks:", "  default:">>,
      <<"# mcp-bridge: see MCP-DOCKER-main", "services:", "  app:", "    image: app">> }

\* The machines the script may run on: docker, docker-compose and curl are
\* installed or not, MCP-DOCKER-main is in the working directory or not, the
\* build, the start and the API work or not.
Hosts ==
    [docker : BOOLEAN, compose : BOOLEAN, curl : BOOLEAN, mcp_dir : BOOLEAN,
     build_ok : BOOLEAN, up_ok : BOOLEAN, api_ok : BOOLEAN]

Step(name, ok) == [step |-> name, ok |-> ok]

\* run_setup goes on to `next` after a step
GoOn(name, ok, next) ==
    /\ setup_steps' = Append(setup_steps, Step(name, ok))
    /\ setup_pc' = next
    /\ UNCHANGED setup_result

\* run_setup returns `result`, or lets the exception `result` through
Leave(name, ok, result) ==
    /\ setup_steps' = Append(setup_steps, Step(name, ok))
    /\ setup_pc' = "returned"
    /\ setup_result' = result

\* if not self.check_prerequisites(): return False
check_prerequisites ==
    /\ setup_pc = "check_prerequisites"
    /\ IF host.docker /\ host.compose
       THEN GoOn("check_prerequisites", TRUE, "build_mcp_image")
       ELSE Leave("check_prerequisites", FALSE, "False")
    /\ UNCHANGED <<setup_runs, host, compose_file, script_file, guide_file, notSetupVars>>

\* if not self.build_mcp_image(): return False.  subprocess.run(..., cwd=mcp_dir)
\* raises an OSError that nothing catches when the directory is not there.
build_mcp_image ==
    /\ setup_pc = "build_mcp_image"
    /\ IF ~host.mcp_dir THEN Leave("build_mcp_image", FALSE, "OSError")
       ELSE IF host.build_ok THEN GoOn("build_mcp_image", TRUE, "start_mcp_service")
       ELSE Leave("build_mcp_image", FALSE, "False")
    /\ UNCHANGED <<setup_runs, host, compose_file, script_file, guide_file, notSetupVars>>

\* if not self.start_mcp_service(): return False
start_mcp_service ==
    /\ setup_pc = "start_mcp_service"
    /\ IF host.up_ok THEN GoOn("start_mcp_service", TRUE, "test_mcp_api")
       ELSE Leave("start_mcp_service", FALSE, "False")
    /\ UNCHANGED <<setup_runs, host, compose_file, script_file, guide_file, notSetupVars>>

\* if not self.test_mcp_api(): print(...).  subprocess.run(['curl', ...]) raises
\* FileNotFoundError when curl is not installed; test_mcp_api catches
\* CalledProcessError and JSONDecodeError only.
test_mcp_api ==
    /\ setup_pc = "test_mcp_api"
    /\ IF ~host.curl THEN Leave("test_mcp_api", FALSE, "OSError")
       ELSE GoOn("test_mcp_api", host.api_ok, "create_integration_script")
    /\ UNCHANGED <<setup_runs, host, compose_file, script_file, guide_file, notSetupVars>>

\* self.create_integration_script()
create_integration_script ==
    /\ setup_pc = "create_integration_script"
    /\ script_file' = TRUE
    /\ GoOn("create_integration_script", TRUE, "create_docker_integration")
    /\ UNCHANGED <<setup_runs, host, compose_file, guide_file, notSetupVars>>

\* The text create_docker_integration leaves in a docker-compose.yml.
Integrated(content) ==
    IF content = Missing THEN Missing
    ELSE IF Mentioned(content, MentionsMcp) THEN content
    ELSE IF Mentioned(content, HasNetworks) THEN Replace(content)
    ELSE content \o McpService

\* self.create_docker_integration()
create_docker_integration ==
    /\ setup_pc = "create_docker_integration"
    /\ compose_file' = Integrated(compose_file)
    /\ GoOn("create_docker_integration", TRUE, "create_quick_start_guide")
    /\ UNCHANGED <<setup_runs, host, script_file, guide_file, notSetupVars>>

\* self.create_quick_start_guide(); return True
create_quick_start_guide ==
    /\ setup_pc = "create_quick_start_guide"
    /\ guide_file' = TRUE
    /\ Leave("create_quick_start_guide", TRUE, "True")
    /\ UNCHANGED <<setup_runs, host, compose_file, script_file, notSetupVars>>

\* The script is run again on the same project and machine.
main ==
    /\ setup_pc = "returned"
    /\ setup_runs < MaxRuns
    /\ setup_runs' = setup_runs + 1
    /\ setup_pc' = "check_prerequisites"
    /\ setup_result' = "none"
    /\ setup_steps' = <<>>
    /\ UNCHANGED <<host, compose_file, script_file, guide_file, notSetupVars>>

\* The script is not run.
NoSetup ==
    /\ setup_pc = "returned"
    /\ setup_result = "none"
    /\ setup_steps = <<>>
    /\ setup_runs = 0
    /\ host = [docker |-> FALSE, compose |-> FALSE, curl |-> FALSE, mcp_dir |-> FALSE,
               build_ok |-> FALSE, up_ok |-> FALSE, api_ok |-> FALSE]
    /\ compose_file = Missing
    /\ script_file = FALSE
    /\ guide_file = FALSE

\* setup = MCPDockerSetup(); setup.run_setup()
InitSetup ==
    /\ setup_pc = "check_prerequisites"
    /\ setup_result = "none"
    /\ setup_steps = <<>>
    /\ setup_runs = 1
    /\ host \in Hosts
    /\ compose_file \in ComposeFiles
    /\ script_file = FALSE
    /\ guide_file = FALSE

-----------------------------------------------------------------------------
(* LogViewer (src/log_viewer.py): one thread polls the backend and the       *)
(* frontend and puts messages on a queue, another prints the queue.          *)

PollSleep == 5

\* "a cada 30 segundos"
ActivityPeriod == 30

Services == {"backend", "frontend"}

\* A service answers 200, answers another status, or refuses the connection.
ServiceStates == {"up", "failing", "down"}

PyNone == [some |-> FALSE, value |-> FALSE]

Some(b) == [some |-> TRUE, value |-> b]

\* check_service_status(url, service_name): (online, message)
check_service_status(state) ==
    IF state = "up" THEN [online |-> TRUE, msg |-> "Online"]
    ELSE IF state = "failing" THEN [online |-> FALSE, msg |-> "HTTP 500"]
    ELSE [online |-> FALSE, msg |-> "Conexão recusada"]

\* (log_msg, color) of a status message
StatusMsg(at, tag, online, msg) ==
    [at |-> at, tag |-> tag,
     text |-> <<"Status:", IF online THEN "ONLINE" ELSE "OFFLINE", msg>>,
     color |-> IF online THEN "success" ELSE "error"]

\* (activity_msg, 'info')
ActivityMsg(at) ==
    [at |-> at, tag |-> "SYSTEM", text |-> <<"Serviços ativos">>, color |-> "info"]

\* The program has not been started.
NoViewer ==
    /\ viewer_running = FALSE
    /\ viewer_queue = <<>>
    /\ viewer_shown = <<>>
    /\ viewer_now = 0
    /\ services = [s \in Services |-> "down"]
    /\ backend_online = PyNone
    /\ frontend_online = PyNone
    /\ last_backend_status = PyNone
    /\ last_frontend_status = PyNone

\* LogViewer() and the start of monitor_services
InitViewer ==
    /\ viewer_running = TRUE
    /\ viewer_queue = <<>>
    /\ viewer_shown = <<>>
    /\ viewer_now = 0
    /\ services \in [Services -> ServiceStates]
    /\ backend_online = PyNone
    /\ frontend_online = PyNone
    /\ last_backend_status = PyNone
    /\ last_frontend_status = PyNone

\* monitor_services comparing the frontend's flag with last_backend_status
monitor_services_shared_last ==
    /\ viewer_running
    /\ viewer_now < MaxPolls * PollSleep
    /\ LET b == check_service_status(services["backend"])
           f == check_service_status(services["frontend"])
           q1 == IF Some(b.online) # last_backend_status
                 THEN Append(viewer_queue, StatusMsg(viewer_now, "BACKEND", b.online, b.msg))
                 ELSE viewer_queue
           q2 == IF Some(f.online) # last_backend_status
                 THEN Append(q1, StatusMsg(viewer_now, "FRONTEND", f.online, f.msg))
                 ELSE q1
           q3 == IF b.online /\ f.online THEN Append(q2, ActivityMsg(viewer_now)) ELSE q2
       IN  /\ viewer_queue' = q3
           /\ backend_online' = Some(b.online)
           /\ frontend_online' = Some(f.online)
           /\ last_backend_status' =
                IF Some(b.online) # last_backend_status THEN Some(b.online)
                ELSE last_backend_status
           /\ last_frontend_status' =
                IF Some(f.online) # last_backend_status THEN Some(f.online)
                ELSE last_frontend_status
    /\ viewer_now' = viewer_now + PollSleep
    /\ UNCHANGED <<viewer_running, viewer_shown, services, notViewerVars>>

\* One turn of the loop of monitor_services: both checks, the messages, the
\* sleep.
monitor_services ==
    /\ viewer_running
    /\ viewer_now < MaxPolls * PollSleep
    /\ LET b == check_service_status(services["backend"])
           f == check_service_status(services["frontend"])
           q1 == IF Some(b.online) # last_backend_status
                 THEN Append(viewer_queue, StatusMsg(viewer_now, "BACKEND", b.online, b.msg))
                 ELSE viewer_queue
           q2 == IF Some(f.online) # last_frontend_status
                 THEN Append(q1, StatusMsg(viewer_now, "FRONTEND", f.online, f.msg))
                 ELSE q1
           q3 == IF b.online /\ f.online THEN Append(q2, ActivityMsg(viewer_now)) ELSE q2
       IN  /\ viewer_queue' = q3
           /\ backend_online' = Some(b.online)
           /\ frontend_online' = Some(f.online)
           /\ last_backend_status' =
                IF Some(b.online) # last_backend_status THEN Some(b.online)
                ELSE last_backend_status
           /\ last_frontend_status' =
                IF Some(f.online) # last_frontend_status THEN Some(f.online)
                ELSE last_frontend_status
    /\ viewer_now' = viewer_now + PollSleep
    /\ UNCHANGED <<viewer_running, viewer_shown, services, notViewerVars>>

\* One turn of the loop of display_logs that finds an entry on the queue.
viewer_display_logs ==
    /\ viewer_running
    /\ viewer_queue # <<>>
    /\ viewer_shown' = Append(viewer_shown, Head(viewer_queue))
    /\ viewer_queue' = Tail(viewer_queue)
    /\ UNCHANGED <<viewer_running, viewer_now, services, backend_online, frontend_online,
                   last_backend_status, last_frontend_status, notViewerVars>>

\* run: KeyboardInterrupt
viewer_interrupt ==
    /\ viewer_running
    /\ viewer_running' = FALSE
    /\ UNCHANGED <<viewer_queue, viewer_shown, viewer_now, services, backend_online,
                   frontend_online, last_backend_status, last_frontend_status, notViewerVars>>

\* A service comes up, starts to fail or goes down.
ServiceChange(s, st) ==
    /\ services[s] # st
    /\ services' = [services EXCEPT ![s] = st]
    /\ UNCHANGED <<viewer_running, viewer_queue, viewer_shown, viewer_now, backend_online,
                   frontend_online, last_backend_status, last_frontend_status, notViewerVars>>

-----------------------------------------------------------------------------
(* LogMonitor (src/log_monitor.py): run starts the backend and the frontend, *)
(* a thread per process puts the lines of its output on a queue, another     *)
(* thread prints the queue, and Ctrl+C stops the processes.                  *)

\* The n-th line a process writes; every second line is blank.
Line(s, n) == [svc |-> s, n |-> n, blank |-> (n % 2 = 0)]

\* line.decode('utf-8', errors='ignore').strip() is not empty
Stripped(line) == ~line.blank

\* (formatted_line, service_name, log_level)
Entry(line) == [svc |-> line.svc, n |-> line.n]

\* self.processes, as run may leave it: a Popen that fails adds nothing
ProcessTables == {<<>>, <<"backend">>, <<"frontend">>, <<"backend", "frontend">>}

Monitored == {mon_processes[i] : i \in 1..Len(mon_processes)}

\* The program has not been started.
NoMonitor ==
    /\ mon_running = FALSE
    /\ mon_processes = <<>>
    /\ mon_alive = [s \in Services |-> FALSE]
    /\ mon_written = [s \in Services |-> 0]
    /\ mon_read = [s \in Services |-> 0]
    /\ mon_pc = [s \in Services |-> "none"]
    /\ mon_queue = <<>>
    /\ mon_shown = <<>>
    /\ mon_stop = [pc |-> "none", i |-> 0]
    /\ mon_sent = [s \in Services |-> <<>>]
    /\ mon_errors = {}

\* LogMonitor(), and run up to its loop: the processes are started, each with
\* its thread, and the thread of display_logs is started.
InitMonitor ==
    /\ mon_running = TRUE
    /\ mon_processes \in ProcessTables
    /\ mon_alive = [s \in Services |-> s \in Monitored]
    /\ mon_written = [s \in Services |-> 0]
    /\ mon_read = [s \in Services |-> 0]
    /\ mon_pc = [s \in Services |-> IF s \in Monitored THEN "while" ELSE "none"]
    /\ mon_queue = <<>>
    /\ mon_shown = <<>>
    /\ mon_stop = [pc |-> "run", i |-> 0]
    /\ mon_sent = [s \in Services |-> <<>>]
    /\ mon_errors = {}

\* A monitored process writes a line to its output.
ProcessWrites(s) ==
    /\ mon_alive[s]
    /\ mon_written[s] < MaxLines
    /\ mon_written' = [mon_written EXCEPT ![s] = @ + 1]
    /\ UNCHANGED <<mon_running, mon_processes, mon_alive, mon_read, mon_pc, mon_queue,
                   mon_shown, mon_stop, mon_sent, mon_errors, notMonitorVars>>

\* A monitored process exits by itself.
ProcessExits(s) ==
    /\ mon_alive[s]
    /\ mon_alive' = [mon_alive EXCEPT ![s] = FALSE]
    /\ UNCHANGED <<mon_running, mon_processes, mon_written, mon_read, mon_pc, mon_queue,
                   mon_shown, mon_stop, mon_sent, mon_errors, notMonitorVars>>

\* The threads of the program run until sys.exit(0).
Threads == mon_stop.pc # "exited"

\* monitor_process: while self.running and process.poll() is None
monitor_process_while(s) ==
    /\ Threads
    /\ mon_pc[s] = "while"
    /\ mon_pc' = [mon_pc EXCEPT ![s] =
                    IF mon_running /\ mon_alive[s] THEN "readline" ELSE "returned"]
    /\ UNCHANGED <<mon_running, mon_processes, mon_alive, mon_written, mon_read, mon_queue,
                   mon_shown, mon_stop, mon_sent, mon_errors, notMonitorVars>>

\* monitor_process: the body of the loop.  readline returns the next line of
\* the pipe, or b'' at its end, which comes when the process has exited; it
\* blocks until then.
monitor_process(s) ==
    /\ Threads
    /\ mon_pc[s] = "readline"
    /\ IF mon_read[s] < mon_written[s]
       THEN /\ mon_read' = [mon_read EXCEPT ![s] = @ + 1]
            /\ mon_queue' =
                 IF Stripped(Line(s, mon_read[s] + 1))
                 THEN Append(mon_queue, Entry(Line(s, mon_read[s] + 1)))
                 ELSE mon_queue
       ELSE /\ ~mon_alive[s]
            /\ UNCHANGED <<mon_read, mon_queue>>
    /\ mon_pc' = [mon_pc EXCEPT ![s] = "while"]
    /\ UNCHANGED <<mon_running, mon_processes, mon_alive, mon_written, mon_shown,
                   mon_stop, mon_sent, mon_errors, notMonitorVars>>

\* One turn of the loop of display_logs that finds an entry on the queue.
display_logs ==
    /\ Threads
    /\ mon_running
    /\ mon_queue # <<>>
    /\ mon_shown' = Append(mon_shown, Head(mon_queue))
    /\ mon_queue' = Tail(mon_queue)
    /\ UNCHANGED <<mon_running, mon_processes, mon_alive, mon_written, mon_read, mon_pc,
                   mon_stop, mon_sent, mon_errors, notMonitorVars>>

\* Ctrl+C: signal_handler calls stop_all_processes, which begins with
\* self.running = False
stop_all_processes ==
    /\ mon_stop.pc = "run"
    /\ mon_running' = FALSE
    /\ mon_stop' = [pc |-> "poll", i |-> 1]
    /\ UNCHANGED <<mon_processes, mon_alive, mon_written, mon_read, mon_pc, mon_queue,
                   mon_shown, mon_sent, mon_errors, notMonitorVars>>

\* stop_all_processes goes on to the next entry of self.processes
NextProcess == [pc |-> "poll", i |-> mon_stop.i + 1]

\* stop_all_processes, the loop stopping on the first failure
stop_terminate_leaving ==
    /\ mon_stop.pc = "poll"
    /\ mon_stop.i <= Len(mon_processes)
    /\ LET s == mon_processes[mon_stop.i]
       IN  IF ~mon_alive[s]
           THEN /\ mon_stop' = NextProcess
                /\ UNCHANGED <<mon_sent, mon_errors>>
           ELSE \/ /\ mon_sent' = [mon_sent EXCEPT ![s] = Append(@, "SIGTERM")]
                   /\ mon_stop' = [mon_stop EXCEPT !.pc = "wait"]
                   /\ UNCHANGED mon_errors
                \/ /\ mon_errors' = mon_errors \cup {s}
                   /\ mon_stop' = [pc |-> "poll", i |-> Len(mon_processes) + 1]
                   /\ UNCHANGED mon_sent
    /\ UNCHANGED <<mon_running, mon_processes, mon_alive, mon_written, mon_read, mon_pc,
                   mon_queue, mon_shown, notMonitorVars>>

\* stop_all_processes, one entry of self.processes: if process.poll() is None,
\* process.terminate(), which sends the signal or raises; an exception is
\* printed and the loop goes on.
stop_terminate ==
    /\ mon_stop.pc = "poll"
    /\ mon_stop.i <= Len(mon_processes)
    /\ LET s == mon_processes[mon_stop.i]
       IN  IF ~mon_alive[s]
           THEN /\ mon_stop' = NextProcess
                /\ UNCHANGED <<mon_sent, mon_errors>>
           ELSE \/ /\ mon_sent' = [mon_sent EXCEPT ![s] = Append(@, "SIGTERM")]
                   /\ mon_stop' = [mon_stop EXCEPT !.pc = "wait"]
                   /\ UNCHANGED mon_errors
                \/ /\ mon_errors' = mon_errors \cup {s}
                   /\ mon_stop' = NextProcess
                   /\ UNCHANGED mon_sent
    /\ UNCHANGED <<mon_running, mon_processes, mon_alive, mon_written, mon_read, mon_pc,
                   mon_queue, mon_shown, notMonitorVars>>

\* stop_all_processes: process.wait(timeout=5) returns when the process has
\* exited, or raises TimeoutExpired after 5 seconds of a process that has
\* not; then process.kill() and process.wait(), which returns when the
\* process is gone.
stop_wait ==
    /\ mon_stop.pc = "wait"
    /\ LET s == mon_processes[mon_stop.i]
       IN  \/ /\ mon_alive' = [mon_alive EXCEPT ![s] = FALSE]
              /\ UNCHANGED mon_sent
           \/ /\ mon_alive[s]
              /\ mon_sent' = [mon_sent EXCEPT ![s] = Append(@, "SIGKILL")]
              /\ mon_alive' = [mon_alive EXCEPT ![s] = FALSE]
    /\ mon_stop' = NextProcess
    /\ UNCHANGED <<mon_running, mon_processes, mon_written, mon_read, mon_pc, mon_queue,
                   mon_shown, mon_errors, notMonitorVars>>

\* stop_all_processes returns and signal_handler ends the program: sys.exit(0)
signal_handler ==
    /\ mon_stop.pc = "poll"
    /\ mon_stop.i > Len(mon_processes)
    /\ mon_stop' = [mon_stop EXCEPT !.pc = "exited"]
    /\ UNCHANGED <<mon_running, mon_processes, mon_alive, mon_written, mon_read, mon_pc,
                   mon_queue, mon_shown, mon_sent, mon_errors, notMonitorVars>>

\* The gateway is not part of this program.
NoGateway ==
    /\ client = "None"
    /\ engineUp = FALSE
    /\ containers = [c \in Universe |-> Absent]
    /\ pc = [w \in Contexts |-> "idle"]
    /\ req = [w \in Contexts |-> NoReq]
    /\ handle = [w \in Contexts |-> NoHandle]
    /\ calls = [w \in Contexts |-> <<>>]
    /\ resp = [w \in Contexts |-> NoResp]

InitV == NoGateway /\ InitViewer /\ NoSetup /\ NoMonitor

NextViewer ==
    \/ monitor_services
    \/ viewer_display_logs
    \/ viewer_interrupt
    \/ \E s \in Services, st \in ServiceStates : ServiceChange(s, st)

SpecViewer == InitV /\ [][NextViewer]_vars

InitS == NoGateway /\ NoViewer /\ InitSetup /\ NoMonitor

NextSetup ==
    \/ check_prerequisites
    \/ build_mcp_image
    \/ start_mcp_service
    \/ test_mcp_api
    \/ create_integration_script
    \/ create_docker_integration
    \/ create_quick_start_guide
    \/ main

SpecSetup == InitS /\ [][NextSetup]_vars

InitM == NoGateway /\ NoViewer /\ NoSetup /\ InitMonitor

NextMonitor ==
    \/ \E s \in Services : ProcessWrites(s)
    \/ \E s \in Services : ProcessExits(s)
    \/ \E s \in Services : monitor_process_while(s)
    \/ \E s \in Services : monitor_process(s)
    \/ display_logs
    \/ stop_all_processes
    \/ stop_terminate
    \/ stop_wait
    \/ signal_handler

\* Each thread of the program gets to run.
FairnessMonitor ==
    /\ \A s \in Services : WF_vars(monitor_process_while(s)) /\ WF_vars(monitor_process(s))
    /\ WF_vars(display_logs)

SpecMonitor == InitM /\ [][NextMonitor]_vars /\ FairnessMonitor

-----------------------------------------------------------------------------
(* The service *)

\* get_docker_client without its try/except: a failure of docker.from_env()
\* leaves the module unloaded
get_docker_client_uncaught(up) == IF up THEN {"DockerClient", "Raised"} ELSE {"Raised"}

\* client = get_docker_client(): docker.from_env() returned a client, which
\* takes a reachable engine here, or it raised (the engine is unreachable, or
\* the environment's settings are unusable) and the handle is None.
get_docker_client(up) == IF up THEN {"DockerClient", "None"} ELSE {"None"}

Init ==
    /\ engineUp \in BOOLEAN
    /\ client \in get_docker_client(engineUp)
    /\ containers \in [Universe -> Statuses \cup {Absent}]
    /\ pc = [w \in Contexts |-> "idle"]
    /\ req = [w \in Contexts |-> NoReq]
    /\ handle = [w \in Contexts |-> NoHandle]
    /\ calls = [w \in Contexts |-> <<>>]
    /\ resp = [w \in Contexts |-> NoResp]
    /\ NoViewer
    /\ NoSetup
    /\ NoMonitor

Next ==
    \/ \E w \in DOMAIN pc : health_check(w)
    \/ \E w \in DOMAIN pc : list_running_containers(w)
    \/ \E w \in DOMAIN pc : list_all_containers(w)
    \/ \E w \in DOMAIN pc, ref \in Refs : start_container(w, Request("start", ref, NoForce, NoBody))
    \/ \E w \in DOMAIN pc : start_container_op(w)
    \/ \E w \in DOMAIN pc, ref \in Refs : stop_container(w, Request("stop", ref, NoForce, NoBody))
    \/ \E w \in DOMAIN pc : stop_container_op(w)
    \/ \E w \in DOMAIN pc, ref \in Refs : get_container_logs(w, Request("logs", ref, NoForce, NoBody))
    \/ \E w \in DOMAIN pc : get_container_logs_op(w)
    \/ \E w \in DOMAIN pc, ref \in Refs, f \in ForceArgs :
            remove_container(w, Request("remove", ref, f, NoBody))
    \/ \E w \in DOMAIN pc : remove_container_op(w)
    \/ \E w \in DOMAIN pc, ref \in Refs, b \in Bodies :
            exec_command(w, Request("exec", ref, NoForce, b))
    \/ \E w \in DOMAIN pc : exec_command_op(w)
    \/ \E w \in DOMAIN pc : exec_command_killed(w)
    \/ \E w \in DOMAIN pc : Finish(w)
    \/ \E c \in Universe, s \in Statuses \cup {Absent} : EngineChange(c, s)
    \/ EngineUpDown

Spec == Init /\ [][Next]_vars

-----------------------------------------------------------------------------
(* The service with two handling contexts (threads of the server, or worker  *)
(* processes), a reachable engine, and requests that list, stop and exec.    *)

Contexts2 == {"h1", "h2"}

Init2 ==
    /\ engineUp = TRUE
    /\ client \in get_docker_client(engineUp)
    /\ containers \in [Universe -> Statuses \cup {Absent}]
    /\ pc = [w \in Contexts2 |-> "idle"]
    /\ req = [w \in Contexts2 |-> NoReq]
    /\ handle = [w \in Contexts2 |-> NoHandle]
    /\ calls = [w \in Contexts2 |-> <<>>]
    /\ resp = [w \in Contexts2 |-> NoResp]
    /\ NoViewer
    /\ NoSetup
    /\ NoMonitor

Next2 ==
    \/ \E w \in DOMAIN pc : list_running_containers(w)
    \/ \E w \in DOMAIN pc, c \in Universe :
            stop_container(w, Request("stop", NameOf(c), NoForce, NoBody))
    \/ \E w \in DOMAIN pc : stop_container_op(w)
    \/ \E w \in DOMAIN pc, c \in Universe :
            exec_command(w, Request("exec", NameOf(c), NoForce, "command_str"))
    \/ \E w \in DOMAIN pc : exec_command_op(w)
    \/ \E w \in DOMAIN pc : exec_command_killed(w)
    \/ \E w \in DOMAIN pc : Finish(w)

\* Each context is a thread or process of its own: a handler that has made its
\* lookup goes on to its engine call, whatever the other contexts do.
Fairness2 ==
    \A w \in Contexts2 :
        /\ WF_vars(stop_container_op(w))
        /\ WF_vars(exec_command_op(w))

SpecTwo == Init2 /\ [][Next2]_vars /\ Fairness2

-----------------------------------------------------------------------------
(* The service with two handling contexts whose requests list, start, stop   *)
(* and remove containers by name, while others change the engine too.        *)

NextLists ==
    \/ \E w \in DOMAIN pc : list_running_containers(w)
    \/ \E w \in DOMAIN pc : list_all_containers(w)
    \/ \E w \in DOMAIN pc, c \in Universe :
            start_container(w, Request("start", NameOf(c), NoForce, NoBody))
    \/ \E w \in DOMAIN pc : start_container_op(w)
    \/ \E w \in DOMAIN pc, c \in Universe :
            stop_container(w, Request("stop", NameOf(c), NoForce, NoBody))
    \/ \E w \in DOMAIN pc : stop_container_op(w)
    \/ \E w \in DOMAIN pc, c \in Universe :
            remove_container(w, Request("remove", NameOf(c), ForceArg(StrTrue), NoBody))
    \/ \E w \in DOMAIN pc : remove_container_op(w)
    \/ \E w \in DOMAIN pc : Finish(w)
    \/ \E c \in Universe, s \in Statuses \cup {Absent} : EngineChange(c, s)

SpecLists == Init2 /\ [][NextLists]_vars

-----------------------------------------------------------------------------
(* The service with two handling contexts whose requests start, stop, read   *)
(* the logs of, exec in and force-remove containers by name; nobody else     *)
(* changes the engine, so that a removed container stays removed.            *)

NextRace ==
    \/ \E w \in DOMAIN pc, c \in Universe :
            start_container(w, Request("start", NameOf(c), NoForce, NoBody))
    \/ \E w \in DOMAIN pc : start_container_op(w)
    \/ \E w \in DOMAIN pc, c \in Universe :
            stop_container(w, Request("stop", NameOf(c), NoForce, NoBody))
    \/ \E w \in DOMAIN pc : stop_container_op(w)
    \/ \E w \in DOMAIN pc, c \in Universe :
            get_container_logs(w, Request("logs", NameOf(c), NoForce, NoBody))
    \/ \E w \in DOMAIN pc : get_container_logs_op(w)
    \/ \E w \in DOMAIN pc, c \in Universe :
            exec_command(w, Request("exec", NameOf(c), NoForce, "command_str"))
    \/ \E w \in DOMAIN pc : exec_command_op(w)
    \/ \E w \in DOMAIN pc : exec_command_killed(w)
    \/ \E w \in DOMAIN pc, c \in Universe :
            remove_container(w, Request("remove", NameOf(c), ForceArg(StrTrue), NoBody))
    \/ \E w \in DOMAIN pc : remove_container_op(w)
    \/ \E w \in DOMAIN pc : Finish(w)

SpecRace == Init2 /\ [][NextRace]_vars

-----------------------------------------------------------------------------
(* Properties *)

Last(s) == s[Len(s)]

Range(s) == {s[i] : i \in 1..Len(s)}

\* Context w ends a request in this step.
Responds(w) == pc[w] # "done" /\ pc'[w] = "done"

\* Context w takes a request in this step.
Takes(w) == pc[w] = "idle" /\ pc'[w] # "idle"

\* C1 as stated: every answer of GET /health has status 200, its
\* docker_connected is true exactly when the handle is present, and it is false
\* whenever the engine is unreachable at the time of the answer.
C1_Original ==
    [][\A w \in DOMAIN pc :
        (Responds(w) /\ req'[w].ep = "health") =>
            /\ resp'[w].status = 200
            /\ resp'[w].body.docker_connected = (client # "None")
            /\ (~engineUp => resp'[w].body.docker_connected = FALSE)]_vars

\* C1 as amended: every answer of GET /health has status 200 and its
\* docker_connected is true exactly when the handle obtained at startup is
\* present, whether or not the engine is reachable at the time of the answer;
\* the handle, and with it the field, never changes after startup.
C1_Health ==
    [][/\ client' = client
       /\ \A w \in DOMAIN pc :
            (Responds(w) /\ req'[w].ep = "health") =>
                /\ resp'[w].status = 200
                /\ resp'[w].kind = "health"
                /\ resp'[w].body.docker_connected = (client # "None")]_vars

\* C1's case: health answered 200 while the engine is unreachable, with
\* docker_connected telling that the handle is present.
C1_Witness ==
    \E w \in DOMAIN pc :
        /\ pc[w] = "done"
        /\ req[w].ep = "health"
        /\ resp[w].status = 200
        /\ resp[w].body.docker_connected = TRUE
        /\ client # "None"
        /\ ~engineUp

\* C2: with the handle absent, every data-plane request is answered 503
\* {"error": "Docker client não conectado"} and no engine call is made for it.
C2_Unavailable ==
    \A w \in DOMAIN pc :
        (client = "None" /\ req[w].ep \in DataPlane) =>
            /\ pc[w] = "done"
            /\ resp[w].status = 503
            /\ resp[w].kind = "error"
            /\ resp[w].error = "Docker client não conectado"
            /\ calls[w] = <<>>

\* C2's case: an exec for an unknown id and with no command, answered 503.
C2_Witness ==
    \E w \in DOMAIN pc :
        /\ client = "None"
        /\ pc[w] = "done"
        /\ req[w].ep = "exec"
        /\ req[w].cid = UnknownRef
        /\ req[w].body = "no_command"
        /\ resp[w].status = 503

\* Failures of an engine call that are not an answer of the engine.
CallFaults == FaultMsgs \cup {ConnRefused}

\* The bodies of an exec request that are JSON objects without the key command.
ObjectsWithoutCommand == {"empty_object", "no_command"}

\* The bodies of an exec request that are JSON objects with the key command.
ObjectsWithCommand == {"command_str", "command_list"}

\* C3 as stated: a request to start, stop, logs, remove or exec whose id the
\* engine does not know is answered 404 with an error field.
C3_Original ==
    [][\A w \in DOMAIN pc :
        (Takes(w) /\ req'[w].ep \in ContainerEndpoints /\ ~Known(containers, req'[w].cid)) =>
            /\ pc'[w] = "done"
            /\ resp'[w].status = 404
            /\ resp'[w].kind = "error"
            /\ resp'[w].error # ""]_vars

\* C3 as amended: with the handle present, a request to start, stop, logs or
\* remove, or an exec whose body carries a command, for an id the engine does
\* not know makes the lookup call only and is answered 404 with an error field
\* when the engine answers that call; it is answered 500 only when the lookup
\* call itself fails (engine unreachable, engine-side fault).
C3_NotFound ==
    [][\A w \in DOMAIN pc :
        ( /\ Takes(w)
          /\ client # "None"
          /\ req'[w].ep \in ContainerEndpoints
          /\ (req'[w].ep = "exec" => req'[w].body \in ObjectsWithCommand)
          /\ ~Known(containers, req'[w].cid) ) =>
            /\ pc'[w] = "done"
            /\ Len(calls'[w]) = 1
            /\ calls'[w][1].op = "get"
            /\ \/ /\ calls'[w][1].result = "404 Client Error: Not Found"
                  /\ resp'[w].status = 404
                  /\ resp'[w].kind = "error"
                  /\ resp'[w].error = "Container não encontrado"
               \/ /\ calls'[w][1].result \in CallFaults
                  /\ resp'[w].status = 500]_vars

\* C3's case: an exec with a command for an id no container has, answered 404.
C3_Witness ==
    \E w \in DOMAIN pc :
        /\ pc[w] = "done"
        /\ req[w].ep = "exec"
        /\ req[w].body = "command_str"
        /\ req[w].cid = UnknownRef
        /\ calls[w] = <<Call("get", NotFound)>>
        /\ resp[w].status = 404

\* C4 as stated: an exec whose body has no command field is answered 400
\* without any engine call, also when the handle is absent.
C4_Original ==
    [][\A w \in DOMAIN pc :
        (Takes(w) /\ req'[w].ep = "exec" /\ req'[w].body \in ObjectsWithoutCommand) =>
            /\ pc'[w] = "done"
            /\ resp'[w].status = 400
            /\ calls'[w] = <<>>]_vars

\* C4 as amended: an exec whose body is a JSON object without a command field
\* makes no engine call; it is answered 400 when the handle is present and 503
\* when the handle is absent, the connection check coming first.
C4_MissingCommand ==
    [][\A w \in DOMAIN pc :
        (Takes(w) /\ req'[w].ep = "exec" /\ req'[w].body \in ObjectsWithoutCommand) =>
            /\ pc'[w] = "done"
            /\ calls'[w] = <<>>
            /\ resp'[w].kind = "error"
            /\ resp'[w].status = IF client = "None" THEN 503 ELSE 400]_vars

\* C4's case: with the handle present, an exec without command for an id no
\* container has is answered 400 and the engine is not asked.
C4_Witness ==
    \E w \in DOMAIN pc :
        /\ pc[w] = "done"
        /\ req[w].ep = "exec"
        /\ req[w].body = "no_command"
        /\ req[w].cid = UnknownRef
        /\ client # "None"
        /\ resp[w].status = 400
        /\ calls[w] = <<>>

\* C5: with the handle present, an exec whose body is absent, empty or lacks
\* the key command is answered 400 and no engine call is made, whatever the id.
C5_Claim ==
    [][\A w \in DOMAIN pc :
        ( /\ Takes(w)
          /\ client # "None"
          /\ req'[w].ep = "exec"
          /\ req'[w].body \in {"absent_json", "absent_plain"} \cup ObjectsWithoutCommand ) =>
            /\ pc'[w] = "done"
            /\ resp'[w].status = 400
            /\ calls'[w] = <<>>]_vars

\* The kinds of a 200 answer of a data-plane endpoint.
SuccessKinds == {"list", "started", "stopped", "logs", "removed", "exec"}

\* C6: every data-plane request that ends, ends in a response that is a
\* success (200) or has status 400, 404, 500 or 503 and the body
\* {"error": <message>}; the context then takes further requests.
C6_Envelope ==
    \A w \in DOMAIN pc :
        (pc[w] = "done" /\ req[w].ep \in DataPlane) =>
            /\ \/ resp[w].status = 200 /\ resp[w].kind \in SuccessKinds
               \/ /\ resp[w].status \in {400, 404, 500, 503}
                  /\ resp[w].kind = "error"
                  /\ resp[w].error # ""
            /\ ENABLED Finish(w)

\* C6's case: a failed engine call in list_all_containers, answered 500 with
\* the error body.
C6_Witness ==
    \E w \in DOMAIN pc :
        /\ pc[w] = "done"
        /\ req[w].ep = "containers_all"
        /\ calls[w] = <<Call("list", ConnRefused)>>
        /\ resp[w].status = 500
        /\ resp[w].kind = "error"

\* The results of an engine call that are failures other than not-found.
OtherFailures == CallFaults \cup {ConflictRunning, ConflictNotRunning, AmbiguousPrefix}

\* C7: a request whose engine call failed otherwise than with not-found is
\* answered 500 with the failure's message as the error field; the failed call
\* was the last one made, the calls before it succeeded, and no call was made
\* twice.
C7_EngineError ==
    \A w \in DOMAIN pc :
        (pc[w] = "done" /\ \E i \in 1..Len(calls[w]) : calls[w][i].result \in OtherFailures) =>
            /\ resp[w].status = 500
            /\ resp[w].kind = "error"
            /\ resp[w].error = Last(calls[w]).result
            /\ \A i \in 1..(Len(calls[w]) - 1) : calls[w][i].result = Ok
            /\ \A i, j \in 1..Len(calls[w]) : calls[w][i].op = calls[w][j].op => i = j

\* C7's case: a stop whose lookup succeeded and whose stop call timed out.
C7_Witness ==
    \E w \in DOMAIN pc :
        /\ pc[w] = "done"
        /\ req[w].ep = "stop"
        /\ calls[w] = <<Call("get", Ok), Call("stop", "Read timed out")>>
        /\ resp[w].status = 500
        /\ resp[w].error = "Read timed out"

\* C8: the summaries a 200 answer of GET /containers holds are among those
\* GET /containers/all gives for the engine state the answer was computed
\* from, and a 200 answer of GET /containers/all holds all those GET
\* /containers gives for that state.
C8_Subset ==
    [][\A w \in DOMAIN pc :
        /\ (Responds(w) /\ req'[w].ep = "containers" /\ resp'[w].status = 200) =>
                Range(resp'[w].body) \subseteq Range(AllListing(containers))
        /\ (Responds(w) /\ req'[w].ep = "containers_all" /\ resp'[w].status = 200) =>
                Range(RunningListing(containers)) \subseteq Range(resp'[w].body)]_vars

\* C8's case: GET /containers answered with a running container while the
\* engine also holds a stopped one.
C8_Witness ==
    \E w \in DOMAIN pc :
        /\ pc[w] = "done"
        /\ req[w].ep = "containers"
        /\ resp[w].status = 200
        /\ Len(resp[w].body) = 1
        /\ \E c \in Universe : containers[c] = "exited"
        /\ Range(resp[w].body) \subseteq Range(AllListing(containers))
        /\ Range(resp[w].body) # Range(AllListing(containers))

\* Context w makes the second engine call of a request to endpoint ep in this
\* step, on a container that is running when the call is made.
OperatesOnRunning(w, ep) ==
    /\ pc[w] = "got"
    /\ pc'[w] = "done"
    /\ req[w].ep = ep
    /\ containers[handle[w].cid] = "running"

\* C9: a remove of a running container whose force parameter is absent or is
\* not "true" is answered with a non-2xx error carrying the engine's message
\* and the container stays; with force=true the engine does not reject it,
\* and when the engine carries the call out the answer is 200 with status
\* removed and the container is gone from the engine.
C9_RemoveRunning ==
    [][\A w \in DOMAIN pc :
        OperatesOnRunning(w, "remove") =>
            /\ Last(calls'[w]).op = "remove"
            /\ (req[w].force \in {NoForce, ForceArg(StrFalse), ForceArg(StrOne)}) =>
                    /\ Last(calls'[w]).result = ConflictRunning
                            \/ Last(calls'[w]).result \in CallFaults
                    /\ resp'[w].status \notin 200..299
                    /\ resp'[w].kind = "error"
                    /\ resp'[w].error = Last(calls'[w]).result
                    /\ containers' = containers
            /\ (req[w].force = ForceArg(StrTrue)) =>
                    /\ Last(calls'[w]).result \in {Ok} \cup CallFaults
                    /\ Last(calls'[w]).result = Ok =>
                            /\ resp'[w].status = 200
                            /\ resp'[w].body.status = "removed"
                            /\ containers'[handle[w].cid] = Absent
                            /\ \A c \in Universe \ {handle[w].cid} : containers'[c] = containers[c]]_vars

\* C9's case: a remove without force was refused by the engine because the
\* container runs, and the container is still there.
C9_Witness ==
    \E w \in DOMAIN pc :
        /\ pc[w] = "done"
        /\ req[w].ep = "remove"
        /\ req[w].force = NoForce
        /\ handle[w].status = "running"
        /\ calls[w] = <<Call("get", Ok), Call("remove", ConflictRunning)>>
        /\ resp[w].status = 500
        /\ containers[handle[w].cid] = "running"

\* C10: a start of a container that is already running is passed to the
\* engine like any other; when the engine carries it out the answer is 200
\* with status started, otherwise it is the engine's failure as 500; either
\* way the engine's state is what it was, the container still running, so
\* that the next start meets the same state and is answered alike.
C10_StartRunning ==
    [][\A w \in DOMAIN pc :
        OperatesOnRunning(w, "start") =>
            /\ calls'[w] = Append(calls[w], Call("start", Last(calls'[w]).result))
            /\ Last(calls'[w]).result \in {Ok} \cup CallFaults
            /\ Last(calls'[w]).result = Ok =>
                    /\ resp'[w].status = 200
                    /\ resp'[w].body.status = "started"
            /\ Last(calls'[w]).result # Ok =>
                    /\ resp'[w].status = 500
                    /\ resp'[w].error = Last(calls'[w]).result
            /\ containers' = containers
            /\ containers'[handle[w].cid] = "running"
            /\ client' = client]_vars

\* C10's case: a container found running was started and the answer is 200.
C10_Witness ==
    \E w \in DOMAIN pc :
        /\ pc[w] = "done"
        /\ req[w].ep = "start"
        /\ handle[w].status = "running"
        /\ calls[w] = <<Call("get", Ok), Call("start", Ok)>>
        /\ resp[w].status = 200
        /\ containers[handle[w].cid] = "running"

\* The id field of a summary designates container c alone: no other container
\* of the engine has an identifier that begins with it or is named by it.
DesignatesOnly(cs, id, c) ==
    \A d \in Present(cs) \ {c} : ~IsPrefix(id, FullId(d)) /\ NameOf(d) # id

\* Context w takes a start request whose id is the id field of the summary
\* that a list endpoint gives for container c in the engine state of this step.
FeedsBack(w, c) ==
    /\ Takes(w)
    /\ client # "None"
    /\ req'[w].ep = "start"
    /\ \/ \E i \in 1..Len(AllListing(containers)) :
            EngineList(containers, TRUE)[i] = c /\ AllListing(containers)[i].id = req'[w].cid
       \/ \E i \in 1..Len(RunningListing(containers)) :
            EngineList(containers, FALSE)[i] = c /\ RunningListing(containers)[i].id = req'[w].cid

HandlerCalls == {"list", "get", "start", "stop", "logs", "remove", "exec"}

\* C12: the module is loaded whatever docker.from_env() did: the handle is a
\* client or None, never a failure of the load; it is never assigned again and
\* no request makes a call that connects; with the handle None every answer of
\* health is 200 with docker_connected false, also once the engine is reachable.
C12_Startup ==
    [][/\ client \in {"DockerClient", "None"}
       /\ client' = client
       /\ \A w \in DOMAIN pc :
            /\ \A i \in 1..Len(calls'[w]) : calls'[w][i].op \in HandlerCalls
            /\ (Responds(w) /\ req'[w].ep = "health" /\ client = "None") =>
                    /\ resp'[w].status = 200
                    /\ resp'[w].body.docker_connected = FALSE]_vars

\* C12's case: the connection failed at startup, the engine is reachable now,
\* and health still answers 200 with docker_connected false.
C12_Witness ==
    \E w \in DOMAIN pc :
        /\ client = "None"
        /\ engineUp
        /\ pc[w] = "done"
        /\ req[w].ep = "health"
        /\ resp[w].status = 200
        /\ resp[w].body.docker_connected = FALSE

\* The status codes the handlers return.
StatusCodes == {200, 400, 404, 500, 503}

\* C13: every answer has one of the five status codes and no step, whatever
\* the answer it ends with, changes the handle set at startup; a context that
\* takes a request holds nothing of an earlier one (no request, no container
\* object, no call, no response), so what a request meets is the handle, the
\* request itself and the engine.
C13_Stateless ==
    [][/\ client' = client
       /\ \A w \in DOMAIN pc :
            /\ Responds(w) => resp'[w].status \in StatusCodes
            /\ Takes(w) =>
                    /\ req[w] = NoReq
                    /\ handle[w] = NoHandle
                    /\ calls[w] = <<>>
                    /\ resp[w] = NoResp]_vars

\* C13's case: a request whose lookup succeeded and whose operation failed has
\* been answered 500, and the handle is still the client of startup.
C13_Witness ==
    \E w \in DOMAIN pc :
        /\ pc[w] = "done"
        /\ resp[w].status = 500
        /\ Len(calls[w]) = 2
        /\ calls[w][1].result = Ok
        /\ client = "DockerClient"

\* Two texts are the same up to the case of their letters.
SameIgnoringCase(a, b) ==
    /\ Len(a) = Len(b)
    /\ \A i \in 1..Len(a) :
        \/ a[i] = b[i]
        \/ a[i] \in 21..46 /\ b[i] = a[i] + 40
        \/ b[i] \in 21..46 /\ a[i] = b[i] + 40

\* The force parameter of the request is there and reads "true" in any case.
AsksForce(r) == r.force.present /\ SameIgnoringCase(r.force.value, StrTrue)

\* C14: no answer to a remove is a 400, whatever the force parameter; the
\* remove call is made on the engine for every value of it, and the engine
\* treats the call as forced exactly when the parameter is present and reads
\* "true" in any case: on a running container a call the engine answers is
\* carried out in that case and refused as a conflict in every other.
C14_Force ==
    [][\A w \in DOMAIN pc :
        /\ (Responds(w) /\ req'[w].ep = "remove") => resp'[w].status # 400
        /\ (pc[w] = "got" /\ pc'[w] = "done" /\ req[w].ep = "remove") =>
            /\ Last(calls'[w]).op = "remove"
            /\ containers[handle[w].cid] = "running" =>
                    IF AsksForce(req[w])
                    THEN Last(calls'[w]).result \in {Ok} \cup CallFaults
                    ELSE Last(calls'[w]).result \in {ConflictRunning} \cup CallFaults
            /\ containers[handle[w].cid] \in Statuses \ {"running"} =>
                    Last(calls'[w]).result \in {Ok} \cup CallFaults]_vars

\* C14's case: force=True, in mixed case, removed a running container.
C14_Witness ==
    \E w \in DOMAIN pc :
        /\ pc[w] = "done"
        /\ req[w].ep = "remove"
        /\ req[w].force = ForceArg(StrTrueMixed)
        /\ handle[w].status = "running"
        /\ calls[w] = <<Call("get", Ok), Call("remove", Ok)>>
        /\ resp[w].status = 200
        /\ containers[handle[w].cid] = Absent

\* The list `body` has one summary for each container of `cs` and no other.
OnePerContainer(body, cs) ==
    /\ Len(body) = Cardinality(cs)
    /\ \A c \in cs : \E i \in 1..Len(body) : body[i].name = NameOf(c)
    /\ \A i \in 1..Len(body) : \E c \in cs : body[i].name = NameOf(c)

\* Context w ends a request to list endpoint ep whose call the engine answered.
ListAnswered(w, ep) ==
    /\ Responds(w)
    /\ req'[w].ep = ep
    /\ client # "None"
    /\ calls'[w] = <<Call("list", Ok)>>

\* C15: when the handle is present and the engine answers the list call,
\* GET /containers is 200 with one summary for each container that is running
\* at the call and none for another, and GET /containers/all is 200 with one
\* summary for each container the engine holds, running or not.
C15_Listing ==
    [][\A w \in DOMAIN pc :
        /\ ListAnswered(w, "containers") =>
                /\ resp'[w].status = 200
                /\ OnePerContainer(resp'[w].body,
                                   {c \in Universe : containers[c] = "running"})
        /\ ListAnswered(w, "containers_all") =>
                /\ resp'[w].status = 200
                /\ OnePerContainer(resp'[w].body, Present(containers))]_vars

\* C15's case: GET /containers/all answered with a running and a stopped
\* container.
C15_Witness ==
    \E w \in DOMAIN pc :
        /\ pc[w] = "done"
        /\ req[w].ep = "containers_all"
        /\ resp[w].status = 200
        /\ Len(resp[w].body) = 2
        /\ \E i, j \in 1..2 :
            resp[w].body[i].status = "running" /\ resp[w].body[j].status = "exited"

\* C16: a logs request that is answered 200 made one logs call on the
\* engine; its logs field is text of at most 100 lines, which are the last
\* lines of the container's output (all of them when there are fewer), each
\* with its timestamp; its container_id field is the id of the request.
C16_Logs ==
    [][\A w \in DOMAIN pc :
        (Responds(w) /\ req'[w].ep = "logs" /\ resp'[w].status = 200) =>
            LET lines == resp'[w].body.logs.lines
                c == handle[w].cid
            IN  /\ calls'[w] = <<Call("get", Ok), Call("logs", Ok)>>
                /\ resp'[w].body.container_id = req'[w].cid
                /\ resp'[w].body.logs.kind = "str"
                /\ Len(lines) <= 100
                /\ Len(lines) = 100 \/ Len(lines) = LogLen(c)
                /\ \A i \in 1..Len(lines) :
                    /\ lines[i].line = LogLen(c) - Len(lines) + i
                    /\ lines[i].stamp]_vars

\* C16's case: the container has written more than 100 lines and the answer
\* holds the last 100 of them.
C16_Witness ==
    \E w \in DOMAIN pc :
        /\ pc[w] = "done"
        /\ req[w].ep = "logs"
        /\ resp[w].status = 200
        /\ LogLen(handle[w].cid) > 100
        /\ Len(resp[w].body.logs.lines) = 100
        /\ resp[w].body.logs.lines[1].line = LogLen(handle[w].cid) - 99
        /\ resp[w].body.logs.lines[100].line = LogLen(handle[w].cid)

\* C17: an exec whose call on the engine is pending has no response and is
\* blocked in the call; while its container runs (the command has not ended)
\* it stays so, step after step, for no timeout of the service ends it; and a
\* request another context has looked its container up for still goes on to
\* its own engine call and ends, for the blocked context holds nothing the
\* other one waits for.
C17_Hang ==
    /\ [](\A w \in Contexts2 :
            (calls[w] # <<>> /\ Last(calls[w]).result = Pending) =>
                pc[w] = "blocked" /\ resp[w] = NoResp)
    /\ [][\A w \in Contexts2 :
            (pc[w] = "blocked" /\ containers'[handle[w].cid] = "running") =>
                pc'[w] = "blocked" /\ resp'[w] = NoResp]_vars
    /\ \A v \in Contexts2 : \A w \in Contexts2 \ {v} :
            (pc[v] = "blocked" /\ pc[w] = "got" /\ req[w].ep = "stop")
                ~> (pc[w] = "done")

\* C17's case: one context is blocked in an exec on a running container and
\* the other has ended a stop of another container with 200 meanwhile.
C17_Witness ==
    \E v \in DOMAIN pc : \E w \in DOMAIN pc \ {v} :
        /\ pc[v] = "blocked"
        /\ req[v].ep = "exec"
        /\ containers[handle[v].cid] = "running"
        /\ resp[v] = NoResp
        /\ pc[w] = "done"
        /\ req[w].ep = "stop"
        /\ resp[w].status = 200
        /\ handle[w].cid # handle[v].cid
        /\ containers[handle[w].cid] = "exited"

\* The list `body` has a summary of container c.
Lists(body, c) == \E i \in 1..Len(body) : body[i].name = NameOf(c)

\* C18: every 200 answer of a list endpoint is the listing of the engine's
\* state at that call, whatever was answered before and whoever changed the
\* engine since: a container that is stopped at the call is not in /containers
\* and is in /containers/all as stopped, and one that was removed is in
\* neither.
C18_Fresh ==
    [][\A w \in DOMAIN pc :
        /\ (Responds(w) /\ req'[w].ep = "containers" /\ resp'[w].status = 200) =>
                /\ resp'[w].body = RunningListing(containers)
                /\ \A c \in Universe :
                        containers[c] # "running" => ~Lists(resp'[w].body, c)
        /\ (Responds(w) /\ req'[w].ep = "containers_all" /\ resp'[w].status = 200) =>
                /\ resp'[w].body = AllListing(containers)
                /\ \A c \in Universe :
                        /\ containers[c] = "exited" =>
                                \E i \in 1..Len(resp'[w].body) :
                                    /\ resp'[w].body[i].name = NameOf(c)
                                    /\ resp'[w].body[i].status = "exited"
                        /\ containers[c] = Absent => ~Lists(resp'[w].body, c)]_vars

\* C18's case: one context still holds an answer of /containers that lists a
\* container as running; the container has been stopped since, and the answer
\* of /containers the other context got after that does not list it.
C18_Witness ==
    \E v \in DOMAIN pc : \E w \in DOMAIN pc \ {v} : \E c \in Universe :
        /\ pc[v] = "done" /\ req[v].ep = "containers" /\ resp[v].status = 200
        /\ Lists(resp[v].body, c)
        /\ containers[c] = "exited"
        /\ pc[w] = "done" /\ req[w].ep = "containers" /\ resp[w].status = 200
        /\ ~Lists(resp[w].body, c)
        /\ resp[w].body = RunningListing(containers)

\* Summary `sm` is the one of container c: its id is the first 12 characters
\* of c's identifier, its image c's first tag, or "unknown" if c's image has none.
SummaryOf(sm, c) ==
    /\ sm.name = NameOf(c)
    /\ Len(sm.id) = 12
    /\ \A i \in 1..12 : sm.id[i] = FullId(c)[i]
    /\ sm.image = IF Len(ImageTags(c)) = 0 THEN "unknown" ELSE Head(ImageTags(c))

\* C19: every summary of a 200 answer of a list endpoint is the summary of a
\* container the engine holds, with the 12-character id and the first tag or
\* "unknown"; and a list call the engine answered is answered 200 also when a
\* container it lists has an image without tags.
C19_Summary ==
    [][\A w \in DOMAIN pc :
        /\ (Responds(w) /\ req'[w].ep \in {"containers", "containers_all"}
                /\ resp'[w].status = 200) =>
                \A i \in 1..Len(resp'[w].body) :
                    \E c \in Present(containers) : SummaryOf(resp'[w].body[i], c)
        /\ (ListAnswered(w, "containers") \/ ListAnswered(w, "containers_all")) =>
                resp'[w].status = 200]_vars

\* C19's case: a list answer with a container whose image has no tags, shown
\* as "unknown", next to one shown with its first tag.
C19_Witness ==
    \E w \in DOMAIN pc :
        /\ pc[w] = "done"
        /\ req[w].ep = "containers"
        /\ resp[w].status = 200
        /\ \E i, j \in 1..Len(resp[w].body) :
            /\ resp[w].body[i].image = "unknown"
            /\ ImageTags(1) = <<>>
            /\ resp[w].body[i].name = NameOf(1)
            /\ resp[w].body[j].image = "nginx:latest"

\* Context w ends a request to start, stop or remove a container.
EndsLifecycle(w) == Responds(w) /\ req'[w].ep \in {"start", "stop", "remove"}

\* The 200 answer of a request to endpoint ep reports this status.
Reports(ep) ==
    IF ep = "start" THEN "started" ELSE IF ep = "stop" THEN "stopped" ELSE "removed"

\* The 200 answers have made both calls without error, the others are errors.
SuccessOnlyAfterBoth(w) ==
    /\ resp'[w].status = 200 =>
            /\ resp'[w].body.status = Reports(req'[w].ep)
            /\ calls'[w] = <<Call("get", Ok), Call(req'[w].ep, Ok)>>
    /\ calls'[w] # <<Call("get", Ok), Call(req'[w].ep, Ok)>> =>
            /\ resp'[w].status \notin 200..299
            /\ resp'[w].kind = "error"

\* C20 as stated: a request to start, stop or remove is answered 200 with
\* its status only when the lookup and the operation were both made without
\* error, every other answer is an error, and a request answered with an error
\* leaves the engine's containers as they were.
C20_Original ==
    [][\A w \in DOMAIN pc :
        EndsLifecycle(w) =>
            /\ SuccessOnlyAfterBoth(w)
            /\ resp'[w].status # 200 => containers' = containers]_vars

\* C20: a request to start, stop or remove is answered 200 with its status
\* only when the lookup and the operation were both made without error, and
\* every other answer is an error; a request answered with an error leaves the
\* engine's containers as they were unless its operation was sent and the
\* engine's answer to it was lost.
C20_Success ==
    [][\A w \in DOMAIN pc :
        EndsLifecycle(w) =>
            /\ SuccessOnlyAfterBoth(w)
            /\ (resp'[w].status # 200 /\ Last(<<Call("none", Ok)>> \o calls'[w]).result \notin LostAnswers) =>
                    containers' = containers
            /\ (resp'[w].status # 200 /\ Len(calls'[w]) < 2) =>
                    containers' = containers]_vars

\* C20's case: the lookup of a stop succeeded, the engine refused the stop,
\* the answer is the error as 500 and the container still runs.
C20_Witness ==
    \E w \in DOMAIN pc :
        /\ pc[w] = "done"
        /\ req[w].ep = "stop"
        /\ calls[w] = <<Call("get", Ok), Call("stop", "403 Client Error: permission denied")>>
        /\ resp[w].status = 500
        /\ resp[w].kind = "error"
        /\ handle[w].status = "running"
        /\ containers[handle[w].cid] = "running"

\* The bodies of an exec request that are missing or carry no command.
MissingOrWithoutCommand == {"absent_json", "absent_plain"} \cup ObjectsWithoutCommand

\* C21: an exec is decided by checks in a fixed order, each reached only when
\* the earlier ones pass: handle absent, 503; else body missing or without
\* command, 400; else id unknown to the engine, 404; else the request goes on
\* to the exec call (or ends 500), whose failure gives 500 and whose success
\* gives 200 with the submitted command, the exit code and the output.
C21_Claim ==
    [][\A w \in DOMAIN pc :
        /\ (Takes(w) /\ req'[w].ep = "exec") =>
            IF client = "None"
            THEN pc'[w] = "done" /\ resp'[w].status = 503
            ELSE IF req'[w].body \in MissingOrWithoutCommand
            THEN pc'[w] = "done" /\ resp'[w].status = 400
            ELSE IF ~Known(containers, req'[w].cid) /\ calls'[w] = <<Call("get", NotFound)>>
            THEN pc'[w] = "done" /\ resp'[w].status = 404
            ELSE pc'[w] = "got" \/ (pc'[w] = "done" /\ resp'[w].status = 500)
        /\ (pc[w] = "got" /\ pc'[w] = "done" /\ req[w].ep = "exec"
                /\ req[w].body \in ObjectsWithCommand) =>
            IF Last(calls'[w]).result = Ok
            THEN /\ resp'[w].status = 200
                 /\ resp'[w].body.command = Subscript(DataOf(req[w].body)).value
                 /\ resp'[w].body.exit_code \in ExitCodes
            ELSE resp'[w].status \in {404, 500}]_vars

\* Context w makes the engine call of its request on a container that was
\* there at its lookup and has been removed since.
OperatesOnRemoved(w) ==
    /\ pc[w] = "got"
    /\ pc'[w] # "got"
    /\ req[w].ep \in {"start", "stop", "logs", "exec"}
    /\ handle[w].status # Absent
    /\ containers[handle[w].cid] = Absent

\* C22: a request to start, stop, read the logs of or exec in a container
\* that was removed between the request's lookup and its engine call ends in
\* that call with an error answer, 404 or 500, and not with 200; the step
\* leaves the handle as it was, and every context that has answered can be
\* given its next request.
C22_Race ==
    /\ [][\A w \in Contexts2 :
            OperatesOnRemoved(w) =>
                /\ pc'[w] = "done"
                /\ resp'[w].status \in {404, 500}
                /\ resp'[w].kind = "error"
                /\ client' = client]_vars
    /\ [](\A w \in Contexts2 : pc[w] = "done" => ENABLED Finish(w))

\* C22's case: one context has removed a container with 200, and the other,
\* which had looked the same container up while it was there, ended its stop
\* with 404.
C22_Witness ==
    \E v \in DOMAIN pc : \E w \in DOMAIN pc \ {v} :
        /\ pc[v] = "done" /\ req[v].ep = "remove" /\ resp[v].status = 200
        /\ pc[w] = "done" /\ req[w].ep = "stop"
        /\ handle[w].cid = handle[v].cid
        /\ handle[w].status # Absent
        /\ calls[w] = <<Call("get", Ok), Call("stop", NotFound)>>
        /\ resp[w].status = 404
        /\ containers[handle[w].cid] = Absent

\* Every message monitor_services has put on the queue, in the order of the puts.
ViewerPuts == viewer_shown \o viewer_queue

\* The messages this step puts on the queue.
PutNow == SubSeq(viewer_queue', Len(viewer_queue) + 1, Len(viewer_queue'))

\* This step is a turn of monitor_services.
Polls == viewer_now' # viewer_now

\* C23: monitor_services puts the activity message only on a turn that finds
\* both services online, and no two activity messages are put less than 30
\* seconds apart.
C23_Claim ==
    [][Polls =>
        /\ (\E i \in 1..Len(PutNow) : PutNow[i].tag = "SYSTEM") =>
                /\ services["backend"] = "up" /\ services["frontend"] = "up"
                /\ \A j \in 1..Len(ViewerPuts) :
                        ViewerPuts[j].tag = "SYSTEM" =>
                            viewer_now - ViewerPuts[j].at >= ActivityPeriod]_vars

\* The status messages with this tag among the messages `q`.
Tagged(q, tag) == {i \in 1..Len(q) : q[i].tag = tag}

\* On this turn a status message is due for a service: it is the first turn,
\* or the flag the turn gets differs from the flag of the turn before.
Due(before, state) ==
    before = PyNone \/ before.value # (state = "up")

\* C28: a turn of monitor_services puts one status message for a service,
\* telling the flag it got, when the turn is the first or the flag differs
\* from the one of the turn before, and none otherwise; this holds for the
\* backend and for the frontend each by its own flags.
C28_StatusOnChange ==
    [][Polls =>
        /\ Cardinality(Tagged(PutNow, "BACKEND")) =
                (IF Due(backend_online, services["backend"]) THEN 1 ELSE 0)
        /\ Cardinality(Tagged(PutNow, "FRONTEND")) =
                (IF Due(frontend_online, services["frontend"]) THEN 1 ELSE 0)
        /\ \A i \in Tagged(PutNow, "BACKEND") :
                PutNow[i].text[2] = (IF services["backend"] = "up" THEN "ONLINE" ELSE "OFFLINE")
        /\ \A i \in Tagged(PutNow, "FRONTEND") :
                PutNow[i].text[2] = (IF services["frontend"] = "up" THEN "ONLINE" ELSE "OFFLINE")]_vars

\* C28's case: after three turns the backend, whose flag changed on the
\* second turn and not on the third, has two status messages, and the
\* frontend, whose flag never changed, has the one of the first turn.
C28_Witness ==
    /\ viewer_now = 3 * PollSleep
    /\ Cardinality(Tagged(ViewerPuts, "BACKEND")) = 2
    /\ Cardinality(Tagged(ViewerPuts, "FRONTEND")) = 1
    /\ \E i \in Tagged(ViewerPuts, "BACKEND") : ViewerPuts[i].at = PollSleep
    /\ \A i \in Tagged(ViewerPuts, "BACKEND") : ViewerPuts[i].at < 2 * PollSleep

\* How many times a docker-compose.yml holds the mcp-bridge service block.
Blocks(content) == Cardinality({i \in 1..Len(content) : content[i] = "  mcp-bridge:"})

\* This step is a run of create_docker_integration on a docker-compose.yml.
Integrates ==
    /\ setup_pc = "create_docker_integration"
    /\ setup_pc' # setup_pc
    /\ compose_file # Missing

\* C24: a run of create_docker_integration on a docker-compose.yml that
\* mentions mcp-bridge leaves the file as it is, and a run on one that does
\* not leaves the file with the mcp-bridge block exactly once, before its
\* networks section when it has one.
C24_Claim ==
    [][Integrates =>
        /\ Mentioned(compose_file, MentionsMcp) => compose_file' = compose_file
        /\ ~Mentioned(compose_file, MentionsMcp) =>
                /\ Blocks(compose_file') = 1
                /\ \A i \in 1..Len(compose_file') :
                        compose_file'[i] = "networks:" =>
                            \E j \in 1..(i - 1) : compose_file'[j] = "  mcp-bridge:"]_vars

\* The steps of run_setup, in their order.
SetupOrder ==
    <<"check_prerequisites", "build_mcp_image", "start_mcp_service", "test_mcp_api",
      "create_integration_script", "create_docker_integration", "create_quick_start_guide">>

\* C25: run_setup runs its steps in their order; when check_prerequisites,
\* build_mcp_image or start_mcp_service fails it returns False at once and no
\* file is created or changed; when test_mcp_api has run, whatever its
\* outcome, run_setup goes on to create the integration script, the compose
\* integration and the guide, and returns True.
C25_Claim ==
    [][/\ \A i \in 1..Len(setup_steps') : setup_steps'[i].step = SetupOrder[i]
       /\ (setup_pc \in {"check_prerequisites", "build_mcp_image", "start_mcp_service"}
                /\ setup_pc' = "returned") =>
                /\ setup_result' = "False"
                /\ UNCHANGED <<compose_file, script_file, guide_file>>
       /\ setup_pc = "test_mcp_api" => setup_pc' = "create_integration_script"
       /\ (setup_pc = "create_quick_start_guide" /\ setup_pc' = "returned") =>
                /\ setup_result' = "True"
                /\ script_file' /\ guide_file'
                /\ Len(setup_steps') = Len(SetupOrder)]_vars

-----------------------------------------------------------------------------
(* LogMonitor *)

\* A signal is sent to process s in this step.
Signals(s) == mon_sent'[s] # mon_sent[s]

\* C26: stop_all_processes sets running to False; a monitored process gets a
\* signal only while it runs, SIGTERM first and SIGKILL only after it, from
\* the 5-second wait that the process has not left; and once
\* stop_all_processes has returned, every monitored process has exited except
\* those for which an error was printed, so that with no error printed none
\* runs and an error for one process leaves the others stopped.
C26_Stop ==
    /\ [](mon_stop.pc \in {"poll", "wait", "exited"} => ~mon_running)
    /\ [][\A s \in Services : Signals(s) =>
            /\ mon_alive[s]
            /\ \/ mon_sent[s] = <<>> /\ mon_sent'[s] = <<"SIGTERM">>
               \/ /\ mon_sent[s] = <<"SIGTERM">>
                  /\ mon_sent'[s] = <<"SIGTERM", "SIGKILL">>
                  /\ mon_stop.pc = "wait"
                  /\ ~mon_alive'[s]]_vars
    /\ [](mon_stop.pc = "exited" =>
            \A s \in Monitored : s \in mon_errors \/ ~mon_alive[s])

\* stop_all_processes has returned after an error stopping the backend and
\* after killing a frontend that did not leave on SIGTERM.
C26_Witness ==
    /\ mon_stop.pc = "exited"
    /\ mon_errors = {"backend"}
    /\ mon_alive["backend"]
    /\ mon_sent["frontend"] = <<"SIGTERM", "SIGKILL">>

\* Everything put on the queue so far, in the order of the puts.
MonitorPuts == mon_shown \o mon_queue

Shown(e) == \E i \in 1..Len(mon_shown) : mon_shown[i] = e

\* C27: every non-empty line a monitored process writes is put on the queue
\* at most once and in the order the process wrote it, and, once written, it
\* is eventually displayed unless running becomes false; the lines written
\* just before the process exits included.
C27_Claim ==
    /\ [](\A i, j \in 1..Len(MonitorPuts) :
            i < j =>
                /\ MonitorPuts[i] # MonitorPuts[j]
                /\ MonitorPuts[i].svc = MonitorPuts[j].svc => MonitorPuts[i].n < MonitorPuts[j].n)
    /\ \A s \in Services : \A n \in 1..MaxLines :
            Stripped(Line(s, n)) =>
                [](mon_written[s] >= n => <>(~mon_running \/ Shown(Entry(Line(s, n)))))

====
